---- MODULE Spec2Model ----
(***************************************************************************)
(* A model of the modular synthesizer of ofxCX (namespace CX::Synth): the  *)
(* modules, their input/output connection lists, their configuration block *)
(* (ModuleControlData_t), their parameters (ModuleParameter) and the       *)
(* pull-based evaluation getNextSample().                                  *)
(*                                                                         *)
(* The bodies of ModuleBase::_assignInput, _assignOutput, _dataSet,        *)
(* _setDataIfNotSet, disconnectInput, disconnectOutput, of                 *)
(* operator>>(ModuleBase&, ModuleBase&) and of Splitter live in a .cpp     *)
(* file that is not part of the sources at hand; they are modelled from    *)
(* the specification text (sections 4.2 and 4.4) and the declarations of   *)
(* CX_Synth.h; so are the bodies of Adder, Multiplier, Mixer,              *)
(* RingModulator (section 4.3), Envelope (section 4.6), Oscillator and     *)
(* AdditiveSynth (section 4.4), RecursiveFilter (section 4.5) and          *)
(* SoundBufferInput (section 6).  Everything defined inline in the headers *)
(* is modelled from the code.                                              *)
(***************************************************************************)
EXTENDS Integers, Sequences, FiniteSets, TLC

VARIABLES
    inputs,         \* ModuleBase::_inputs, per module: a sequence of modules
    outputs,        \* ModuleBase::_outputs, per module: a sequence of modules
    data,           \* *ModuleBase::_data, per module: ModuleControlData_t
    pInput,         \* ModuleParameter::_input, per parameter: a module or NULL
    pValue,         \* ModuleParameter::_data (the stored value), per parameter
    currentSample,  \* Splitter::_currentSample
    fedOutputs,     \* Splitter::_fedOutputs
    inputSamples,   \* FIRFilter::_inputSamples, per FIR filter: a sequence
    coefficients,   \* FIRFilter::_coefficients, per FIR filter: a sequence
    fir,            \* FIRFilter::_filterType and _coefCount, per FIR filter
    env,            \* the fields of each Envelope
    osc,            \* the fields of each Oscillator
    rc,             \* the fields of each RCFilter (_v0)
    harmonics,      \* AdditiveSynth::_harmonics, a sequence of HarmonicInfo
    filter,         \* the fields of each RecursiveFilter
    sbInput,        \* the fields of each SoundBufferInput
    player,         \* the fields of the CX_SoundBufferPlayer
    sound,          \* a CX_SoundBuffer: _soundData and _soundChannels
    calls,          \* history: number of getNextSample() invocations per module
    lastOp          \* history: the operation that led to this state

vars == <<inputs, outputs, data, pInput, pValue, currentSample, fedOutputs,
          inputSamples, coefficients, fir, env, osc, rc, harmonics, filter,
          sbInput, player, sound, calls, lastOp>>

----------------------------------------------------------------------------
(* The modules that are constructed, and their classes.                    *)

NULL == "nullptr"

Modules ==
    {"tg1", "tg2", "fm1", "fm2", "sp", "out", "add", "mul", "fir", "mix",
     "rm", "en", "osc", "rc", "as", "flt", "sbi"}

Kind ==
    [m \in Modules |->
        CASE m \in {"tg1", "tg2"} -> "TrivialGenerator"
          [] m \in {"fm1", "fm2"} -> "FunctionModule"
          [] m = "sp"             -> "Splitter"
          [] m = "out"            -> "GenericOutput"
          [] m = "add"            -> "Adder"
          [] m = "mul"            -> "Multiplier"
          [] m = "fir"            -> "FIRFilter"
          [] m = "mix"            -> "Mixer"
          [] m = "rm"             -> "RingModulator"
          [] m = "en"             -> "Envelope"
          [] m = "osc"            -> "Oscillator"
          [] m = "rc"             -> "RCFilter"
          [] m = "as"             -> "AdditiveSynth"
          [] m = "flt"            -> "RecursiveFilter"
          [] m = "sbi"            -> "SoundBufferInput"]

(* The registered parameters: TrivialGenerator registers value and step.   *)
ParamNames == {"value", "step"}

(* Adder and Multiplier have the parameter amount, an Envelope the         *)
(* parameter gateInput, an Oscillator frequency, an RCFilter breakpoint.   *)
Params ==
    {<<m, n>> : m \in {x \in Modules : Kind[x] = "TrivialGenerator"},
                n \in ParamNames}
        \cup {<<m, "amount">> :
                 m \in {x \in Modules : Kind[x] \in {"Adder", "Multiplier"}}}
        \cup {<<m, "gateInput">> :
                 m \in {x \in Modules : Kind[x] = "Envelope"}}
        \cup {<<m, "frequency">> :
                 m \in {x \in Modules : Kind[x] = "Oscillator"}}
        \cup {<<m, "breakpoint">> :
                 m \in {x \in Modules : Kind[x] = "RCFilter"}}

FIRFilters == {m \in Modules : Kind[m] = "FIRFilter"}

Envelopes == {m \in Modules : Kind[m] = "Envelope"}

Oscillators == {m \in Modules : Kind[m] = "Oscillator"}

RCFilters == {m \in Modules : Kind[m] = "RCFilter"}

AdditiveSynths == {m \in Modules : Kind[m] = "AdditiveSynth"}

Filters == {m \in Modules : Kind[m] = "RecursiveFilter"}

SoundBufferInputs == {m \in Modules : Kind[m] = "SoundBufferInput"}

(* The user function of a FunctionModule (FunctionModule::f); any function *)
(* of a double may be installed, this one is injective and not the         *)
(* identity.                                                               *)
UserF(x) == 2 * x + 1

----------------------------------------------------------------------------
(* ModuleControlData_t                                                     *)

SentinelRate == 666

DefaultOversampling == 1

(* ModuleControlData_t(void) *)
DefaultData ==
    [initialized |-> FALSE, sampleRate |-> SentinelRate,
     oversampling |-> DefaultOversampling]

(* ModuleControlData_t(float sampleRate_) *)
DataOfRate(r) ==
    [initialized |-> TRUE, sampleRate |-> r,
     oversampling |-> DefaultOversampling]

(* The sample rates the callers configure. *)
Rates == {44100, 48000}

----------------------------------------------------------------------------
(* Arity limits                                                            *)

DefaultMaxInputs == 1

DefaultMaxOutputs == 1

SplitterMaxOutputs == 32

(* A limit of two inputs where the class sets one. *)
MaxInputsOfTwo(m) == DefaultMaxInputs + 1

(* RingModulator::_maxInputs and Mixer::_maxInputs are declared in the     *)
(* header and defined elsewhere: two inputs to multiply, and no limit (no  *)
(* more inputs can be connected than there are modules).                   *)
RingModulatorMaxInputs == 2

MixerMaxInputs == Cardinality(Modules)

MaxInputs(m) ==
    CASE Kind[m] = "Mixer"         -> MixerMaxInputs
      [] Kind[m] = "RingModulator" -> RingModulatorMaxInputs
      [] Kind[m] = "Oscillator"    -> 0
      [] OTHER                     -> DefaultMaxInputs

MaxOutputs(m) ==
    CASE Kind[m] = "Splitter"      -> SplitterMaxOutputs
      [] Kind[m] = "GenericOutput" -> 0
      [] OTHER                     -> DefaultMaxOutputs

----------------------------------------------------------------------------
(* Sequences as the std::vector of module pointers.                        *)

Contains(seq, x) == \E i \in 1..Len(seq) : seq[i] = x

Remove(seq, x) == SelectSeq(seq, LAMBDA y : y # x)

SeqSet(seq) == {seq[i] : i \in 1..Len(seq)}

(* The state the operations read and write, as one record. *)
St ==
    [inputs |-> inputs, outputs |-> outputs, data |-> data,
     pInput |-> pInput, pValue |-> pValue,
     currentSample |-> currentSample, fedOutputs |-> fedOutputs,
     inputSamples |-> inputSamples, coefficients |-> coefficients,
     fir |-> fir, env |-> env, osc |-> osc, rc |-> rc, harmonics |-> harmonics,
     filter |-> filter, sbInput |-> sbInput, player |-> player,
     sound |-> sound, calls |-> calls]

----------------------------------------------------------------------------
(* Configuration propagation                                               *)

RECURSIVE DataSet(_, _, _)

(* The target adopts the configuration and keeps it to itself. *)
SetDataNotPassedOn(st, this, target) ==
    IF st.data[this].initialized /\ ~st.data[target].initialized
    THEN [st EXCEPT !.data[target] = st.data[this]]
    ELSE st

(* this->_setDataIfNotSet(target): an uninitialized target adopts the      *)
(* initialized configuration of this module and passes it on.              *)
SetDataIfNotSet(st, this, target) ==
    IF st.data[this].initialized /\ ~st.data[target].initialized
    THEN DataSet([st EXCEPT !.data[target] = st.data[this]], target, this)
    ELSE st

RECURSIVE SetDataEach(_, _, _, _)

(* The loop of _dataSet over one connection list, skipping the caller. *)
SetDataEach(st, m, targets, caller) ==
    IF targets = <<>> THEN st
    ELSE SetDataEach(IF Head(targets) # caller
                     THEN SetDataIfNotSet(st, m, Head(targets))
                     ELSE st,
                     m, Tail(targets), caller)

(* m->_dataSet(caller): _dataSetEvent() (empty for the classes modelled),  *)
(* then the configuration is offered to every input and every output but   *)
(* the caller.                                                             *)
DataSet(st, m, caller) ==
    SetDataEach(SetDataEach(st, m, st.inputs[m], caller),
                m, st.outputs[m], caller)

(* m->setData(d) *)
SetDataOp(st, m, d) ==
    DataSet([st EXCEPT !.data[m] = [d EXCEPT !.initialized = TRUE]], m, NULL)

----------------------------------------------------------------------------
(* Connections                                                             *)

(* The input is removed from the list of m and stays an output of in. *)
DisconnectInputOneEnd(st, m, in) ==
    [st EXCEPT !.inputs[m] = Remove(@, in)]

(* m->disconnectInput(in): the edge is removed at both of its ends. *)
DisconnectInput(st, m, in) ==
    [st EXCEPT !.inputs[m] = Remove(@, in), !.outputs[in] = Remove(@, m)]

(* m->disconnectOutput(out) *)
DisconnectOutput(st, m, out) ==
    [st EXCEPT !.outputs[m] = Remove(@, out), !.inputs[out] = Remove(@, m)]

(* m->_inputAssignedEvent(in): GenericOutput and StreamOutput hand their   *)
(* configuration to the input; empty for every other class.               *)
InputAssignedEvent(st, m, in) ==
    IF Kind[m] = "GenericOutput" THEN SetDataOp(st, in, st.data[m]) ELSE st

(* m->_outputAssignedEvent(out): the Splitter starts a new tick; empty for *)
(* every other class.                                                      *)
OutputAssignedEvent(st, m, out) ==
    IF Kind[m] = "Splitter" THEN [st EXCEPT !.fedOutputs[m] = 0] ELSE st

(* The newest connection of the list. *)
Newest(seq) == seq[Len(seq)]

(* The oldest connection of a list that has grown beyond its limit. *)
Oldest(seq) == Head(seq)

(* m->_assignInput(in) *)
AssignInput(st, m, in) ==
    LET s1 == [st EXCEPT !.inputs[m] = Append(@, in)]
        s2 == IF Len(s1.inputs[m]) > MaxInputs(m)
              THEN DisconnectInput(s1, m, Oldest(s1.inputs[m]))
              ELSE s1
    IN  IF Contains(s2.inputs[m], in)
        THEN InputAssignedEvent(
                 SetDataIfNotSet(SetDataIfNotSet(s2, in, m), m, in), m, in)
        ELSE s2

(* m->_assignOutput(out) *)
AssignOutput(st, m, out) ==
    LET s1 == [st EXCEPT !.outputs[m] = Append(@, out)]
        s2 == IF Len(s1.outputs[m]) > MaxOutputs(m)
              THEN DisconnectOutput(s1, m, Oldest(s1.outputs[m]))
              ELSE s1
    IN  IF Contains(s2.outputs[m], out)
        THEN OutputAssignedEvent(
                 SetDataIfNotSet(SetDataIfNotSet(s2, m, out), out, m), m, out)
        ELSE s2

(* A connection from a module that r already feeds is not made. *)
ConnectRejectsLoop(st, l, r) ==
    IF Contains(st.inputs[l], r)
    THEN st
    ELSE AssignOutput(AssignInput(st, r, l), l, r)

(* operator>>(ModuleBase& l, ModuleBase& r) *)
ConnectOp(st, l, r) == AssignOutput(AssignInput(st, r, l), l, r)

(* m->disconnect(): every input and every output of m is disconnected. *)
DisconnectOp(st, m) ==
    [st EXCEPT
        !.inputs  = [x \in Modules |->
                        IF x = m THEN <<>> ELSE Remove(st.inputs[x], m)],
        !.outputs = [x \in Modules |->
                        IF x = m THEN <<>> ELSE Remove(st.outputs[x], m)]]

(* The patch is installed and the source is made an input of the owner. *)
ConnectParamAsInput(st, l, p) ==
    AssignInput([st EXCEPT !.pInput[p] = l], p[1], l)

(* operator>>(ModuleBase& l, ModuleParameter& r) *)
ConnectParamOp(st, l, p) == [st EXCEPT !.pInput[p] = l]

(* The value is stored and the patch is kept. *)
AssignKeepsPatch(st, p, d) == [st EXCEPT !.pValue[p] = d]

(* ModuleParameter::operator=(double d) *)
AssignOp(st, p, d) == [st EXCEPT !.pValue[p] = d, !.pInput[p] = NULL]

----------------------------------------------------------------------------
(* Envelope.  Levels are whole numbers of 1/FullLevel, times are whole     *)
(* numbers of sample periods (_timePerSample is one unit).  The bodies of  *)
(* attack(), release() and getNextSample() are not among the sources; they *)
(* follow section 4.6 of the specification.                                *)

FullLevel == 4

Stages == {"IDLE", "ATTACK", "DECAY", "SUSTAIN", "RELEASE"}

(* An Envelope that is constructed in its attack stage. *)
NewEnvelopeAttacking ==
    [stage |-> "ATTACK", lastP |-> 0, levelAtAttack |-> 0,
     levelAtRelease |-> 0, timeSinceLastStage |-> 0, a |-> 0, d |-> 0,
     s |-> 0, r |-> 0, triggers |-> 0]

(* Envelope::Envelope(void) : _stage(4), which is IDLE.  The constructor   *)
(* sets no other field; Init supplies what the caller assigns (a, d, s, r) *)
(* and what is left indeterminate (_lastP).  triggers is history: the      *)
(* calls of attack() and release() so far.                                 *)
NewEnvelope ==
    [stage |-> "IDLE", lastP |-> 0, levelAtAttack |-> 0, levelAtRelease |-> 0,
     timeSinceLastStage |-> 0, a |-> 0, d |-> 0, s |-> 0, r |-> 0,
     triggers |-> 0]

(* The attack restarts the ramp from 0. *)
AttackFromZero(st, m) ==
    [st EXCEPT !.env[m] =
        [@ EXCEPT !.stage = "ATTACK",
                  !.timeSinceLastStage = 0,
                  !.levelAtAttack = 0,
                  !.triggers = @ + 1]]

(* Envelope::attack() *)
AttackOp(st, m) ==
    [st EXCEPT !.env[m] =
        [@ EXCEPT !.stage = "ATTACK",
                  !.timeSinceLastStage = 0,
                  !.levelAtAttack = st.env[m].lastP,
                  !.triggers = @ + 1]]

(* The release starts from the sustain level. *)
ReleaseFromSustain(st, m) ==
    [st EXCEPT !.env[m] =
        [@ EXCEPT !.stage = "RELEASE",
                  !.timeSinceLastStage = 0,
                  !.levelAtRelease = st.env[m].s,
                  !.triggers = @ + 1]]

(* Envelope::release() *)
ReleaseOp(st, m) ==
    [st EXCEPT !.env[m] =
        [@ EXCEPT !.stage = "RELEASE",
                  !.timeSinceLastStage = 0,
                  !.levelAtRelease = st.env[m].lastP,
                  !.triggers = @ + 1]]

(* The stage a pull computes its sample in: a stage whose time is over (or *)
(* whose duration is 0) is left within the same pull, the stage timer      *)
(* starting again.                                                         *)
RECURSIVE Advance(_)
Advance(e) ==
    CASE e.stage = "ATTACK" /\ ~(e.timeSinceLastStage < e.a) ->
             Advance([e EXCEPT !.stage = "DECAY", !.timeSinceLastStage = 0])
      [] e.stage = "DECAY" /\ ~(e.timeSinceLastStage < e.d) ->
             Advance([e EXCEPT !.stage = "SUSTAIN", !.timeSinceLastStage = 0])
      [] e.stage = "RELEASE" /\ ~(e.timeSinceLastStage < e.r) ->
             [e EXCEPT !.stage = "IDLE", !.timeSinceLastStage = 0]
      [] OTHER -> e

(* The attack ramp runs from the full level down to the recorded level. *)
LevelAttackFalls(e) ==
    CASE e.stage = "ATTACK" ->
             FullLevel
                 - ((FullLevel - e.levelAtAttack) * e.timeSinceLastStage)
                       \div e.a
      [] e.stage = "DECAY" ->
             FullLevel - ((FullLevel - e.s) * e.timeSinceLastStage) \div e.d
      [] e.stage = "SUSTAIN" -> e.s
      [] e.stage = "RELEASE" ->
             (e.levelAtRelease * (e.r - e.timeSinceLastStage)) \div e.r
      [] OTHER -> 0

(* The sustain level decays with the time spent in the stage. *)
LevelSustainDecays(e) ==
    CASE e.stage = "ATTACK" ->
             e.levelAtAttack
                 + ((FullLevel - e.levelAtAttack) * e.timeSinceLastStage)
                       \div e.a
      [] e.stage = "DECAY" ->
             FullLevel - ((FullLevel - e.s) * e.timeSinceLastStage) \div e.d
      [] e.stage = "SUSTAIN" ->
             IF e.timeSinceLastStage > 1 THEN e.s \div 2 ELSE e.s
      [] e.stage = "RELEASE" ->
             (e.levelAtRelease * (e.r - e.timeSinceLastStage)) \div e.r
      [] OTHER -> 0

(* The level of the stage at its time. *)
Level(e) ==
    CASE e.stage = "ATTACK" ->
             e.levelAtAttack
                 + ((FullLevel - e.levelAtAttack) * e.timeSinceLastStage)
                       \div e.a
      [] e.stage = "DECAY" ->
             FullLevel - ((FullLevel - e.s) * e.timeSinceLastStage) \div e.d
      [] e.stage = "SUSTAIN" -> e.s
      [] e.stage = "RELEASE" ->
             (e.levelAtRelease * (e.r - e.timeSinceLastStage)) \div e.r
      [] OTHER -> 0

(* p.updateValue(), declared before the modules that read parameters. *)
RECURSIVE UpdateValueOp(_, _, _)

(* The gate triggers the attack when it rises from 0 to any value above 0  *)
(* and the release when it falls back to 0.                                *)
GateOpAboveZero(st, m, fuel) ==
    LET g == <<m, "gateInput">>
    IN  IF st.pInput[g] = NULL THEN [st |-> st, v |-> 0, ok |-> TRUE]
        ELSE LET u == UpdateValueOp(st, g, fuel)
             IN  [st |-> IF st.pValue[g] = 0 /\ u.v > 0
                             THEN AttackOp(u.st, m)
                         ELSE IF st.pValue[g] > 0 /\ u.v = 0
                             THEN ReleaseOp(u.st, m)
                         ELSE u.st,
                  v  |-> u.v,
                  ok |-> u.ok]

(* Envelope::gateInput: a patched gate is pulled once per sample of the    *)
(* Envelope; when its value changes to 1.0 (FullLevel) the attack is       *)
(* triggered, when it changes to 0 the release.                            *)
GateOp(st, m, fuel) ==
    LET g == <<m, "gateInput">>
    IN  IF st.pInput[g] = NULL THEN [st |-> st, v |-> 0, ok |-> TRUE]
        ELSE LET u == UpdateValueOp(st, g, fuel)
                 updated == u.v # st.pValue[g]
             IN  [st |-> IF updated /\ u.v = FullLevel
                             THEN AttackOp(u.st, m)
                         ELSE IF updated /\ u.v = 0
                             THEN ReleaseOp(u.st, m)
                         ELSE u.st,
                  v  |-> u.v,
                  ok |-> u.ok]

(* The stage timer does not advance. *)
EnvelopeSampleTimerStuck(st, m, fuel) ==
    LET g == GateOp(st, m, fuel)
    IN  IF g.st.env[m].stage = "IDLE"
        THEN [st |-> g.st, v |-> 0, ok |-> g.ok]
        ELSE LET e == Advance(g.st.env[m])
                 p == Level(e)
             IN  [st |-> [g.st EXCEPT !.env[m] = [e EXCEPT !.lastP = p]],
                  v  |-> p,
                  ok |-> g.ok]

(* Envelope::getNextSample: the gate is read first; then 0 while idle,     *)
(* else the level of the stage, which is kept as _lastP, and the stage     *)
(* timer advances by one sample.                                           *)
EnvelopeSample(st, m, fuel) ==
    LET g == GateOp(st, m, fuel)
    IN  IF g.st.env[m].stage = "IDLE"
        THEN [st |-> g.st, v |-> 0, ok |-> g.ok]
        ELSE LET e == Advance(g.st.env[m])
                 p == Level(e)
             IN  [st |-> [g.st EXCEPT !.env[m] =
                             [e EXCEPT !.lastP = p,
                                       !.timeSinceLastStage = @ + 1]],
                  v  |-> p,
                  ok |-> g.ok]

----------------------------------------------------------------------------
(* Evaluation: getNextSample() and ModuleParameter::updateValue().         *)
(* Each operator returns the state after the call, the value returned and  *)
(* ok, which is FALSE when the chain of nested calls grew beyond MaxDepth  *)
(* (a pull around a cycle of connections never returns).                   *)

MaxDepth == 8

RECURSIVE GetNextSample(_, _, _)

(* The sample of the input is returned and not stored. *)
UpdateValueNotStored(st, p, fuel) ==
    IF st.pInput[p] # NULL
    THEN LET r == GetNextSample(st, st.pInput[p], fuel)
         IN  [st |-> r.st, v |-> r.v, ok |-> r.ok]
    ELSE [st |-> st, v |-> st.pValue[p], ok |-> TRUE]

(* p.updateValue(): a patched parameter stores one sample of its input. *)
UpdateValueOp(st, p, fuel) ==
    IF st.pInput[p] # NULL
    THEN LET r == GetNextSample(st, st.pInput[p], fuel)
         IN  [st |-> [r.st EXCEPT !.pValue[p] = r.v], v |-> r.v, ok |-> r.ok]
    ELSE [st |-> st, v |-> st.pValue[p], ok |-> TRUE]

(* _inputs.front()->getNextSample() when an input is connected, else the   *)
(* value 0 and no call.                                                    *)
FrontSample(st, m, fuel) ==
    IF Len(st.inputs[m]) >= 1
    THEN GetNextSample(st, Head(st.inputs[m]), fuel)
    ELSE [st |-> st, v |-> 0, ok |-> TRUE]

(* TrivialGenerator::getNextSample *)
TrivialGeneratorSample(st, m, fuel) ==
    LET u  == UpdateValueOp(st, <<m, "value">>, fuel)
        s2 == [u.st EXCEPT !.pValue[<<m, "value">>] =
                               @ + u.st.pValue[<<m, "step">>]]
    IN  [st |-> s2,
         v  |-> s2.pValue[<<m, "value">>] - s2.pValue[<<m, "step">>],
         ok |-> u.ok]

(* FunctionModule::getNextSample *)
FunctionModuleSample(st, m, fuel) ==
    LET r == FrontSample(st, m, fuel)
    IN  [st |-> r.st, v |-> UserF(r.v), ok |-> r.ok]

RECURSIVE SumFront(_, _, _, _)

(* The loop of GenericOutput::getNextSample: n samples of the first input, *)
(* summed.                                                                 *)
SumFront(st, m, n, fuel) ==
    IF n = 0 THEN [st |-> st, v |-> 0, ok |-> TRUE]
    ELSE LET r    == GetNextSample(st, Head(st.inputs[m]), fuel)
             rest == SumFront(r.st, m, n - 1, fuel)
         IN  [st |-> rest.st, v |-> r.v + rest.v, ok |-> r.ok /\ rest.ok]

(* One sample of the input is returned, whatever the oversampling. *)
GenericOutputSampleOnce(st, m, fuel) ==
    IF Len(st.inputs[m]) = 0 THEN [st |-> st, v |-> 0, ok |-> TRUE]
    ELSE GetNextSample(st, Head(st.inputs[m]), fuel)

(* GenericOutput::getNextSample.  Both constructors of ModuleControlData_t *)
(* set oversampling to 1; where a caller assigns another oversampling the  *)
(* inputs are generators of even step, so the quotient is exact.           *)
GenericOutputSample(st, m, fuel) ==
    IF Len(st.inputs[m]) = 0 THEN [st |-> st, v |-> 0, ok |-> TRUE]
    ELSE LET r == SumFront(st, m, st.data[m].oversampling, fuel)
         IN  [st |-> r.st, v |-> r.v \div st.data[m].oversampling, ok |-> r.ok]

(* Every pull of the Splitter pulls the input. *)
SplitterSampleNoCache(st, m, fuel) ==
    LET r == FrontSample(st, m, fuel)
    IN  [st |-> [r.st EXCEPT !.currentSample[m] = r.v], v |-> r.v, ok |-> r.ok]

(* The tick ends one pull after the last connected output was fed. *)
SplitterSampleLateReset(st, m, fuel) ==
    LET r   == IF st.fedOutputs[m] = 0
               THEN FrontSample(st, m, fuel)
               ELSE [st |-> st, v |-> st.currentSample[m], ok |-> TRUE]
        fed == r.st.fedOutputs[m] + 1
    IN  [st |-> [r.st EXCEPT
                    !.currentSample[m] = r.v,
                    !.fedOutputs[m] =
                        IF fed > Len(r.st.outputs[m]) THEN 0 ELSE fed],
         v  |-> r.v,
         ok |-> r.ok]

(* Splitter::getNextSample: the first pull of a tick pulls the input once  *)
(* and caches the sample; the pull that feeds the last connected output    *)
(* ends the tick.                                                          *)
SplitterSample(st, m, fuel) ==
    LET r   == IF st.fedOutputs[m] = 0
               THEN FrontSample(st, m, fuel)
               ELSE [st |-> st, v |-> st.currentSample[m], ok |-> TRUE]
        fed == r.st.fedOutputs[m] + 1
    IN  [st |-> [r.st EXCEPT
                    !.currentSample[m] = r.v,
                    !.fedOutputs[m] =
                        IF fed >= Len(r.st.outputs[m]) THEN 0 ELSE fed],
         v  |-> r.v,
         ok |-> r.ok]

(* Adder::getNextSample: the input, or 0 without one, plus amount. *)
AdderSample(st, m, fuel) ==
    LET u == UpdateValueOp(st, <<m, "amount">>, fuel)
        r == FrontSample(u.st, m, fuel)
    IN  [st |-> r.st, v |-> r.v + r.st.pValue[<<m, "amount">>],
         ok |-> u.ok /\ r.ok]

(* Multiplier::getNextSample: the input, or 0 without one, times amount. *)
MultiplierSample(st, m, fuel) ==
    LET u == UpdateValueOp(st, <<m, "amount">>, fuel)
        r == FrontSample(u.st, m, fuel)
    IN  [st |-> r.st, v |-> r.v * r.st.pValue[<<m, "amount">>],
         ok |-> u.ok /\ r.ok]

RECURSIVE Dot(_, _)

(* The sum of x[i] * y[i] over the indices of y. *)
Dot(x, y) ==
    IF y = <<>> THEN 0 ELSE Head(x) * Head(y) + Dot(Tail(x), Tail(y))

(* The loop of FIRFilter::getNextSample reads _coefficients[i] for every   *)
(* i < _coefCount: beyond the end of the vector when it is shorter.        *)
OutOfRange(st, m) == st.fir[m].coefCount > Len(st.coefficients[m])

(* FIRFilter::getNextSample has no defined outcome when it pops the front  *)
(* of an empty _inputSamples (no setup), takes the front of an empty       *)
(* _inputs or reads beyond the end of _coefficients.                       *)
Undefined(st, m) ==
    /\ Kind[m] = "FIRFilter"
    /\ \/ st.inputSamples[m] = <<>>
       \/ st.inputs[m] = <<>>
       \/ OutOfRange(st, m)

(* The first n elements of a sequence that has them. *)
Prefix(seq, n) == SubSeq(seq, 1, IF n < 0 THEN 0 ELSE n)

(* FIRFilter::getNextSample: the oldest sample is dropped, a sample of the *)
(* first input is appended and the samples are weighted by the             *)
(* coefficients.  ok is FALSE where the call has no defined outcome.       *)
FIRFilterSample(st, m, fuel) ==
    IF Undefined(st, m) THEN [st |-> st, v |-> 0, ok |-> FALSE]
    ELSE LET r == GetNextSample(st, Head(st.inputs[m]), fuel)
             h == Append(Tail(r.st.inputSamples[m]), r.v)
         IN  [st |-> [r.st EXCEPT !.inputSamples[m] = h],
              v  |-> Dot(h, Prefix(r.st.coefficients[m],
                                   r.st.fir[m].coefCount)),
              ok |-> r.ok]

(* FIRFilter::setup(std::vector<double> coefficients) *)
FIRSetupOp(st, m, c) ==
    [st EXCEPT !.coefficients[m] = c,
               !.inputSamples[m] = [i \in 1..Len(c) |-> 0],
               !.fir[m] = [filterType |-> "USER_DEFINED",
                           coefCount  |-> Len(c),
                           cutoffSet  |-> FALSE]]

(* An unsigned int is kept as <<high, low>>, its two halves of 16 bits. *)
HalfWord == 65536

IsEven(n) == n[2] % 2 = 0

(* n++ for an unsigned int *)
Incr(n) ==
    IF n[2] + 1 < HalfWord THEN <<n[1], n[2] + 1>>
    ELSE <<(n[1] + 1) % HalfWord, 0>>

(* The int an unsigned int converts to: the value modulo 2^32, negative    *)
(* from 2^31 on.                                                           *)
ToInt(n) ==
    IF n[1] < HalfWord \div 2 THEN n[1] * HalfWord + n[2]
    ELSE (n[1] - HalfWord) * HalfWord + n[2]

(* The longest history _inputSamples.assign can allocate in the model. *)
MaxTaps == 5

(* FIRFilter::setup(FilterType filterType, unsigned int coefficientCount): *)
(* an even count is incremented and stored in the int _coefCount; the      *)
(* filter type is not stored.  _inputSamples.assign(_coefCount, 0) takes   *)
(* the int as a size_t: a negative one is beyond max_size() and assign     *)
(* throws, _inputSamples left as it was (ok is FALSE).                     *)
FIRSetupTypeOp(st, m, t, n) ==
    LET c == ToInt(IF IsEven(n) THEN Incr(n) ELSE n)
    IN  [st |-> [st EXCEPT !.fir[m].coefCount = c,
                           !.fir[m].cutoffSet = FALSE,
                           !.inputSamples[m] =
                               IF c \in 0..MaxTaps
                               THEN [i \in 1..c |-> 0] ELSE @],
         ok |-> c >= 0]

(* x / y of C++ for y > 0: the quotient truncated towards 0. *)
TruncDiv(x, y) == IF x >= 0 THEN x \div y ELSE -((-x) \div y)

(* sin(k * PI / 2) *)
SinHalfPi(k) == CASE k % 4 = 1 -> 1 [] k % 4 = 3 -> -1 [] OTHER -> 0

(* The unit of the coefficients: 1.0 is CoefUnit. *)
CoefUnit == 1000

(* FIRFilter::_calcH(n, omega) for omega = q * PI / 2, in CoefUnit:        *)
(* omega / PI for n = 0, else omega / PI * sin(n * omega) / (n * omega)    *)
(* = sin(n * q * PI / 2) / (n * PI), with 1 / PI taken as 113 / 355.       *)
CalcH(n, q) ==
    IF n = 0 THEN (CoefUnit * q) \div 2
    ELSE IF n > 0
         THEN TruncDiv(CoefUnit * SinHalfPi(n * q) * 113, n * 355)
         ELSE TruncDiv(CoefUnit * SinHalfPi(-n * q) * 113, -n * 355)

(* FIRFilter::setCutoff(cutoff), for a cutoff that is a multiple q of a    *)
(* quarter of the sample rate (omega = q * PI / 2): nothing for a          *)
(* USER_DEFINED filter; else the coefficients _calcH(i, omega) for i from  *)
(* -_coefCount / 2 to _coefCount / 2.  ok is FALSE for a HIGH_PASS filter  *)
(* of more than one coefficient, whose loop writes _coefficients[i] at     *)
(* negative i.                                                             *)
FIRSetCutoffOp(st, m, cutoff) ==
    LET q  == (4 * cutoff) \div st.data[m].sampleRate
        lo == TruncDiv(-st.fir[m].coefCount, 2)
        hi == TruncDiv(st.fir[m].coefCount, 2)
        s1 == [st EXCEPT !.fir[m].cutoffSet = TRUE]
    IN  IF st.fir[m].filterType = "USER_DEFINED"
        THEN [st |-> s1, ok |-> TRUE]
        ELSE [st |-> [s1 EXCEPT !.coefficients[m] =
                         [k \in 1..(hi - lo + 1) |-> CalcH(lo + k - 1, q)]],
              ok |-> ~(st.fir[m].filterType = "HIGH_PASS" /\ lo < 0)]

RECURSIVE SumInputs(_, _, _)

(* The loop of Mixer::getNextSample: one sample of each input of the       *)
(* sequence, summed.                                                       *)
SumInputs(st, ins, fuel) ==
    IF ins = <<>> THEN [st |-> st, v |-> 0, ok |-> TRUE]
    ELSE LET r    == GetNextSample(st, Head(ins), fuel)
             rest == SumInputs(r.st, Tail(ins), fuel)
         IN  [st |-> rest.st, v |-> r.v + rest.v, ok |-> r.ok /\ rest.ok]

(* Only the first input is read. *)
MixerSampleFront(st, m, fuel) == FrontSample(st, m, fuel)

(* Mixer::getNextSample *)
MixerSample(st, m, fuel) == SumInputs(st, st.inputs[m], fuel)

(* A single input is multiplied by a missing second input taken as 0. *)
RingModulatorSampleNoPassThrough(st, m, fuel) ==
    IF Len(st.inputs[m]) = 2
    THEN LET x == GetNextSample(st, st.inputs[m][1], fuel)
             y == GetNextSample(x.st, st.inputs[m][2], fuel)
         IN  [st |-> y.st, v |-> x.v * y.v, ok |-> x.ok /\ y.ok]
    ELSE LET r == FrontSample(st, m, fuel)
         IN  [st |-> r.st, v |-> 0, ok |-> r.ok]

(* RingModulator::getNextSample: the product of two inputs, the sample of  *)
(* a single input, 0 without an input.                                     *)
RingModulatorSample(st, m, fuel) ==
    IF Len(st.inputs[m]) = 2
    THEN LET x == GetNextSample(st, st.inputs[m][1], fuel)
             y == GetNextSample(x.st, st.inputs[m][2], fuel)
         IN  [st |-> y.st, v |-> x.v * y.v, ok |-> x.ok /\ y.ok]
    ELSE FrontSample(st, m, fuel)

(* fmod(x, y) of the C library, for y > 0: the remainder of the division  *)
(* truncated towards 0, which has the sign of x.                           *)
Fmod(x, y) == IF x >= 0 THEN x % y ELSE -((-x) % y)

(* The shaping functions installed, of those the class declares. *)
GeneratorFunctions == {"saw", "square", "triangle"}

(* Oscillator::saw, square, triangle at the waveform position n / sr, the  *)
(* sample in units of 1 / sr (sine and whiteNoise have no value in the     *)
(* integers and are not installed).                                        *)
Shape(g, n, sr) ==
    CASE g = "saw"      -> 2 * n - sr
      [] g = "square"   -> IF 2 * n < sr THEN sr ELSE -sr
      [] g = "triangle" -> IF 2 * n < sr THEN 4 * n - sr ELSE 3 * sr - 4 * n
      [] OTHER          -> 0

(* The waveform position starts again at 0. *)
SetGeneratorFunctionResetsPhase(st, m, g) ==
    [st EXCEPT !.osc[m] = [waveformPos |-> 0, generatorFunction |-> g]]

(* Oscillator::setGeneratorFunction *)
SetGeneratorFunctionOp(st, m, g) ==
    [st EXCEPT !.osc[m].generatorFunction = g]

(* Oscillator::getNextSample: the frequency is read, the waveform position *)
(* advances by frequency / sampleRate and is wrapped with fmod(., 1); the  *)
(* position is kept in units of 1 / sampleRate, so that it advances by     *)
(* frequency and is wrapped with fmod(., sampleRate).                      *)
OscillatorSample(st, m, fuel) ==
    LET u   == UpdateValueOp(st, <<m, "frequency">>, fuel)
        sr  == u.st.data[m].sampleRate
        pos == Fmod(u.st.osc[m].waveformPos + u.v, sr)
    IN  [st |-> [u.st EXCEPT !.osc[m].waveformPos = pos],
         v  |-> Shape(u.st.osc[m].generatorFunction, pos, sr),
         ok |-> u.ok]

(* abs(x) *)
Abs(x) == IF x < 0 THEN -x ELSE x

RECURSIVE PruneSkipsAfterErase(_, _)

(* The harmonic that follows an erased one is not looked at. *)
PruneSkipsAfterErase(h, tol) ==
    IF h = <<>> THEN <<>>
    ELSE IF Abs(Head(h).amplitude) < tol
         THEN IF Len(h) = 1 THEN <<>>
              ELSE <<h[2]>> \o PruneSkipsAfterErase(Tail(Tail(h)), tol)
         ELSE <<Head(h)>> \o PruneSkipsAfterErase(Tail(h), tol)

RECURSIVE PruneLowAmplitude(_, _)

(* The loop of AdditiveSynth::pruneLowAmplitudeHarmonics over _harmonics:  *)
(* a harmonic whose absolute amplitude is below tol is erased.             *)
PruneLowAmplitude(h, tol) ==
    IF h = <<>> THEN <<>>
    ELSE IF Abs(Head(h).amplitude) < tol
         THEN PruneLowAmplitude(Tail(h), tol)
         ELSE <<Head(h)>> \o PruneLowAmplitude(Tail(h), tol)

(* AdditiveSynth::pruneLowAmplitudeHarmonics *)
PruneOp(st, m, tol) ==
    [st EXCEPT !.harmonics[m] = PruneLowAmplitude(@, tol)]

(* 2 * PI as the fraction TwoPiNum / TwoPiDen *)
TwoPiNum == 710

TwoPiDen == 113

(* RCFilter::_update(v1): the breakpoint is updated, then                  *)
(* _v0 += (v1 - _v0) * 2 * PI * breakpoint / sampleRate.                   *)
RCUpdate(st, m, v1, fuel) ==
    LET u  == UpdateValueOp(st, <<m, "breakpoint">>, fuel)
        v  == u.st.rc[m].v0
                  + TruncDiv((v1 - u.st.rc[m].v0) * TwoPiNum * u.v,
                             TwoPiDen * u.st.data[m].sampleRate)
    IN  [st |-> [u.st EXCEPT !.rc[m].v0 = v], v |-> v, ok |-> u.ok]

(* RCFilter::getNextSample: with an input, _update of its sample; else 0. *)
RCFilterSample(st, m, fuel) ==
    IF Len(st.inputs[m]) > 0
    THEN LET r == GetNextSample(st, Head(st.inputs[m]), fuel)
             u == RCUpdate(r.st, m, r.v, fuel)
         IN  [st |-> u.st, v |-> u.v, ok |-> r.ok /\ u.ok]
    ELSE [st |-> st, v |-> 0, ok |-> TRUE]

(* The coefficients a0, a1, a2, b1, b2, in CoefUnit. *)
Coefs(a0, a1, a2, b1, b2) ==
    [a0 |-> a0, a1 |-> a1, a2 |-> a2, b1 |-> b1, b2 |-> b2]

NoCoefs == Coefs(0, 0, 0, 0, 0)

(* x * y for two numbers in CoefUnit *)
Mul(x, y) == TruncDiv(x * y, CoefUnit)

(* 2 * PI * f / sampleRate, in CoefUnit *)
Angle(f, sr) == (TwoPiNum * ((CoefUnit * f) \div sr)) \div TwoPiDen

(* exp(-t) for t >= 0 in CoefUnit, as 1 / (1 + t + t^2/2 + t^3/6) *)
ExpNeg(t) ==
    (CoefUnit * CoefUnit)
        \div (CoefUnit + t + Mul(t, t) \div 2 + Mul(Mul(t, t), t) \div 6)

(* cos(t) for 0 <= t <= PI in CoefUnit, as (PI^2 - 4 t^2) / (PI^2 + t^2)   *)
(* up to PI / 2 and -cos(PI - t) beyond.                                   *)
Cos(t) ==
    LET pi  == (TwoPiNum * CoefUnit) \div (2 * TwoPiDen)
        c(u) == TruncDiv(CoefUnit * (Mul(pi, pi) - 4 * Mul(u, u)),
                         Mul(pi, pi) + Mul(u, u))
    IN  IF 2 * t <= pi THEN c(t) ELSE -c(pi - t)

(* RecursiveFilter::_calcCoefs, the design equations of the DSP Guide,     *)
(* chapter 19: single-pole low-pass and high-pass filters with             *)
(* x = exp(-2 PI f); band-pass and notch filters with R = 1 - 3 BW and     *)
(* K = (1 - 2 R cos(2 PI f) + R^2) / (2 - 2 cos(2 PI f)).                  *)
CalcCoefs(type, f, bw, sr) ==
    LET x   == ExpNeg(Angle(f, sr))
        cs  == Cos(Angle(f, sr))
        R   == CoefUnit - 3 * ((CoefUnit * bw) \div sr)
        K   == TruncDiv(CoefUnit * (CoefUnit - 2 * Mul(R, cs) + Mul(R, R)),
                        2 * CoefUnit - 2 * cs)
    IN  CASE type = "LOW_PASS"  -> Coefs(CoefUnit - x, 0, 0, x, 0)
          [] type = "HIGH_PASS" ->
                 Coefs((CoefUnit + x) \div 2, -((CoefUnit + x) \div 2), 0, x, 0)
          [] type = "BAND_PASS" ->
                 Coefs(CoefUnit - K, 2 * Mul(K - R, cs), Mul(R, R) - K,
                       2 * Mul(R, cs), -Mul(R, R))
          [] OTHER ->
                 Coefs(K, -2 * Mul(K, cs), K, 2 * Mul(R, cs), -Mul(R, R))

(* _calcCoefs() on the fields of the filter and its sample rate *)
Recalculate(st, m) ==
    [st EXCEPT !.filter[m].coefs =
                   CalcCoefs(st.filter[m].filterType, st.filter[m].breakpoint,
                             st.filter[m].bandwidth, st.data[m].sampleRate),
               !.filter[m].computed = TRUE]

(* RecursiveFilter::setup(type) *)
FilterSetupOp(st, m, type) ==
    Recalculate([st EXCEPT !.filter[m].filterType = type], m)

(* The breakpoint is stored and the coefficients are left as they are. *)
FilterSetBreakpointNoCalc(st, m, f) ==
    [st EXCEPT !.filter[m].breakpoint = f]

(* RecursiveFilter::setBreakpoint(freq) *)
FilterSetBreakpointOp(st, m, f) ==
    Recalculate([st EXCEPT !.filter[m].breakpoint = f], m)

(* RecursiveFilter::setBandwidth(bw) *)
FilterSetBandwidthOp(st, m, bw) ==
    Recalculate([st EXCEPT !.filter[m].bandwidth = bw], m)

(* m.setData(d) for a RecursiveFilter: _dataSetEvent recalculates. *)
FilterSetDataOp(st, m, d) == Recalculate(SetDataOp(st, m, d), m)

(* RecursiveFilter::getNextSample:                                         *)
(* y = a0 x + a1 x1 + a2 x2 + b1 y1 + b2 y2 for the sample x of the input  *)
(* (0 without an input), and the history moves on.                         *)
RecursiveFilterSample(st, m, fuel) ==
    LET r == FrontSample(st, m, fuel)
        f == r.st.filter[m]
        y == TruncDiv(f.coefs.a0 * r.v + f.coefs.a1 * f.x1
                          + f.coefs.a2 * f.x2 + f.coefs.b1 * f.y1
                          + f.coefs.b2 * f.y2, CoefUnit)
    IN  [st |-> [r.st EXCEPT !.filter[m] =
                    [f EXCEPT !.x2 = f.x1, !.x1 = r.v, !.y2 = f.y1, !.y1 = y]],
         v  |-> y,
         ok |-> r.ok]

(* The CX_SoundBuffer objects of the caller: _soundData, interleaved, and  *)
(* _soundChannels, as setFromVector leaves them (the size of the data is   *)
(* a multiple of the number of channels).                                  *)
SoundBuffer(d, c) == [soundData |-> d, soundChannels |-> c]

SoundBuffers ==
    [mono    |-> SoundBuffer(<<10, 20, 30>>, 1),
     silent  |-> SoundBuffer(<<>>, 1),
     stereo  |-> SoundBuffer(<<11, 21, 12, 22>>, 2),
     stereo3 |-> SoundBuffer(<<11, 21, 12, 22, 13, 23>>, 2),
     click   |-> SoundBuffer(<<5, 6>>, 2)]

(* CX_SoundBuffer::isReadyToPlay *)
IsReadyToPlay(b) == b.soundChannels > 0 /\ Len(b.soundData) # 0

(* The index in _soundData of the sample of a channel in a sample frame. *)
SampleIndex(b, sampleFrame, channel) ==
    (sampleFrame * b.soundChannels) + channel

(* SoundBufferInput::setSoundBuffer(sb, channel): the read cursor goes to   *)
(* the sample of the channel in the first sample frame.                    *)
SetSoundBufferOp(st, m, sb, channel) ==
    [st EXCEPT !.sbInput[m] =
        [sb |-> sb, channel |-> channel,
         currentSample |-> SampleIndex(SoundBuffers[sb], 0, channel)]]

(* SoundBufferInput::canPlay *)
CanPlay(st, m) ==
    /\ st.sbInput[m].sb # NULL
    /\ IsReadyToPlay(SoundBuffers[st.sbInput[m].sb])
    /\ st.sbInput[m].channel < SoundBuffers[st.sbInput[m].sb].soundChannels
    /\ st.sbInput[m].currentSample
           < Len(SoundBuffers[st.sbInput[m].sb].soundData)

(* The read cursor moves on by one sample instead of one sample frame. *)
SoundBufferSampleBySample(st, m) ==
    IF CanPlay(st, m)
    THEN [st |-> [st EXCEPT !.sbInput[m].currentSample = @ + 1],
          v  |-> SoundBuffers[st.sbInput[m].sb]
                     .soundData[st.sbInput[m].currentSample + 1],
          ok |-> TRUE]
    ELSE [st |-> st, v |-> 0, ok |-> TRUE]

(* SoundBufferInput::getNextSample: the sample under the read cursor, and   *)
(* the cursor moves on by one sample frame; 0 when there is nothing to     *)
(* play.                                                                   *)
SoundBufferSample(st, m) ==
    IF CanPlay(st, m)
    THEN [st |-> [st EXCEPT !.sbInput[m].currentSample =
                     @ + SoundBuffers[st.sbInput[m].sb].soundChannels],
          v  |-> SoundBuffers[st.sbInput[m].sb]
                     .soundData[st.sbInput[m].currentSample + 1],
          ok |-> TRUE]
    ELSE [st |-> st, v |-> 0, ok |-> TRUE]

(* m->getNextSample(), dispatched on the class of m. *)
GetNextSample(st, m, fuel) ==
    IF fuel = 0 THEN [st |-> st, v |-> 0, ok |-> FALSE]
    ELSE LET s0 == [st EXCEPT !.calls[m] = @ + 1]
         IN  CASE Kind[m] = "TrivialGenerator" ->
                      TrivialGeneratorSample(s0, m, fuel - 1)
               [] Kind[m] = "FunctionModule" ->
                      FunctionModuleSample(s0, m, fuel - 1)
               [] Kind[m] = "GenericOutput" ->
                      GenericOutputSample(s0, m, fuel - 1)
               [] Kind[m] = "Splitter" ->
                      SplitterSample(s0, m, fuel - 1)
               [] Kind[m] = "Adder" -> AdderSample(s0, m, fuel - 1)
               [] Kind[m] = "Multiplier" -> MultiplierSample(s0, m, fuel - 1)
               [] Kind[m] = "FIRFilter" -> FIRFilterSample(s0, m, fuel - 1)
               [] Kind[m] = "Mixer" -> MixerSample(s0, m, fuel - 1)
               [] Kind[m] = "RingModulator" ->
                      RingModulatorSample(s0, m, fuel - 1)
               [] Kind[m] = "Envelope" -> EnvelopeSample(s0, m, fuel - 1)
               [] Kind[m] = "Oscillator" -> OscillatorSample(s0, m, fuel - 1)
               [] Kind[m] = "RCFilter" -> RCFilterSample(s0, m, fuel - 1)
               [] Kind[m] = "RecursiveFilter" ->
                      RecursiveFilterSample(s0, m, fuel - 1)
               [] Kind[m] = "SoundBufferInput" ->
                      SoundBufferSample(s0, m)
               [] OTHER -> [st |-> s0, v |-> 0, ok |-> TRUE]

----------------------------------------------------------------------------
(* The state after construction.                                           *)

(* FIRFilter::FIRFilter: _filterType(LOW_PASS), _coefCount(-1); cutoffSet  *)
(* is history: setCutoff was called since the last setup.                  *)
NewFIRFilter ==
    [filterType |-> "LOW_PASS", coefCount |-> -1, cutoffSet |-> FALSE]

(* RCFilter::RCFilter: breakpoint(2000) *)
DefaultBreakpoint == 2000

(* A new Oscillator is at waveform position 0 and shapes a sine. *)
NewOscillator == [waveformPos |-> 0, generatorFunction |-> "sine"]

(* RecursiveFilter::RecursiveFilter: _filterType(LOW_PASS) and a history   *)
(* of zeros; _breakpoint, _bandwidth and the coefficients are not          *)
(* initialized (NoCoefs and the values 0 stand for what they hold);        *)
(* computed is history: _calcCoefs has run.                                *)
NewFilter ==
    [filterType |-> "LOW_PASS", breakpoint |-> 0, bandwidth |-> 0,
     coefs |-> NoCoefs, x1 |-> 0, x2 |-> 0, y1 |-> 0, y2 |-> 0,
     computed |-> FALSE]

(* A new SoundBufferInput has no sound buffer. *)
NewSoundBufferInput == [sb |-> NULL, channel |-> 0, currentSample |-> 0]

(* CX_SoundBufferPlayer::CX_SoundBufferPlayer. A uint64_t field holds n for *)
(* a small value n and n - 2^64 for a value n that wrapped below 0, so the  *)
(* initial ULLONG_MAX of _playbackStartSampleFrame is -1. The field         *)
(* bufferSize is the buffer size of the configuration of the sound stream;  *)
(* stopped records, for the properties, that stop() was the last of         *)
(* play(), stop() and startPlayingAt() to be called.                        *)
NewSoundBufferPlayer ==
    [buffer |-> NULL, playing |-> FALSE, playbackStartQueued |-> FALSE,
     playbackStartSampleFrame |-> -1, currentSampleFrame |-> 0,
     soundPlaybackSampleFrame |-> 0, bufferSize |-> 0, stopped |-> FALSE]

(* CX_SoundBuffer::CX_SoundBuffer *)
NewSoundBuffer == [soundData |-> <<>>, soundChannels |-> 0]

Constructed ==
    [inputs        |-> [m \in Modules |-> <<>>],
     outputs       |-> [m \in Modules |-> <<>>],
     data          |-> [m \in Modules |-> DefaultData],
     pInput        |-> [p \in Params |-> NULL],
     pValue        |-> [p \in Params |->
                          IF p[2] = "breakpoint" THEN DefaultBreakpoint
                          ELSE 0],
     currentSample |-> [m \in Modules |-> 0],
     fedOutputs    |-> [m \in Modules |-> 0],
     inputSamples  |-> [m \in FIRFilters |-> <<>>],
     coefficients  |-> [m \in FIRFilters |-> <<>>],
     fir           |-> [m \in FIRFilters |-> NewFIRFilter],
     env           |-> [m \in Envelopes |-> NewEnvelope],
     osc           |-> [m \in Oscillators |-> NewOscillator],
     rc            |-> [m \in RCFilters |-> [v0 |-> 0]],
     harmonics     |-> [m \in AdditiveSynths |-> <<>>],
     filter        |-> [m \in Filters |-> NewFilter],
     sbInput       |-> [m \in SoundBufferInputs |-> NewSoundBufferInput],
     player        |-> NewSoundBufferPlayer,
     sound         |-> NewSoundBuffer,
     calls         |-> [m \in Modules |-> 0]]

(* The connections of a state, as pairs <<source, destination>>. *)
Edges(st) ==
    UNION {{<<x, m>> : x \in SeqSet(st.inputs[m])}
               \cup {<<m, y>> : y \in SeqSet(st.outputs[m])} : m \in Modules}

Op(op, src, dst, par, v, gone) ==
    [op |-> op, src |-> src, dst |-> dst, par |-> par, v |-> v, gone |-> gone]

StartsAt(st) ==
    /\ inputs = st.inputs
    /\ outputs = st.outputs
    /\ data = st.data
    /\ pInput = st.pInput
    /\ pValue = st.pValue
    /\ currentSample = st.currentSample
    /\ fedOutputs = st.fedOutputs
    /\ inputSamples = st.inputSamples
    /\ coefficients = st.coefficients
    /\ fir = st.fir
    /\ env = st.env
    /\ osc = st.osc
    /\ rc = st.rc
    /\ harmonics = st.harmonics
    /\ filter = st.filter
    /\ sbInput = st.sbInput
    /\ player = st.player
    /\ sound = st.sound
    /\ calls = st.calls
    /\ lastOp = Op("construct", NULL, NULL, NULL, 0, {})

Becomes(st, op) ==
    /\ inputs' = st.inputs
    /\ outputs' = st.outputs
    /\ data' = st.data
    /\ pInput' = st.pInput
    /\ pValue' = st.pValue
    /\ currentSample' = st.currentSample
    /\ fedOutputs' = st.fedOutputs
    /\ inputSamples' = st.inputSamples
    /\ coefficients' = st.coefficients
    /\ fir' = st.fir
    /\ env' = st.env
    /\ osc' = st.osc
    /\ rc' = st.rc
    /\ harmonics' = st.harmonics
    /\ filter' = st.filter
    /\ sbInput' = st.sbInput
    /\ player' = st.player
    /\ sound' = st.sound
    /\ calls' = st.calls
    /\ lastOp' = op

----------------------------------------------------------------------------
(* The operations of the callers.                                          *)

MaxCalls == 6

Literals == {0, 1, 2}

(* The number of initialized configurations among two modules. *)
InitializedAmong(st, l, r) ==
    Cardinality({x \in {l, r} : st.data[x].initialized})

(* l >> r, for two modules not yet connected to each other.  The history   *)
(* keeps the connections the call removed and how many of the two modules  *)
(* were initialized before it.                                             *)
Connect(l, r) ==
    /\ l # r
    /\ <<l, r>> \notin Edges(St)
    /\ LET n == ConnectOp(St, l, r)
       IN  Becomes(n, Op("connect", l, r, NULL, InitializedAmong(St, l, r),
                         Edges(St) \ Edges(n)))

(* m.disconnect() *)
Disconnect(m) ==
    /\ \E e \in Edges(St) : m \in {e[1], e[2]}
    /\ LET n == DisconnectOp(St, m)
       IN  Becomes(n, Op("disconnect", NULL, NULL, NULL, 0, {}))

(* m.setData(ModuleControlData_t(r)) *)
SetData(m, r) ==
    Becomes(SetDataOp(St, m, DataOfRate(r)),
            Op("setData", NULL, NULL, NULL, 0, {}))

(* l >> p, for a parameter p.  The history keeps whether p was patched. *)
ConnectParam(l, p) ==
    Becomes(ConnectParamOp(St, l, p),
            Op("connectParam", l, p[1], p[2],
               IF pInput[p] = NULL THEN 0 ELSE 1, {}))

(* p = d *)
Assign(p, d) ==
    Becomes(AssignOp(St, p, d), Op("assign", NULL, p[1], p[2], d, {}))

Bounded(st) == \A m \in Modules : st.calls[m] <= MaxCalls

(* p.updateValue() *)
UpdateValue(p) ==
    LET r == UpdateValueOp(St, p, MaxDepth)
    IN  /\ r.ok
        /\ Bounded(r.st)
        /\ Becomes(r.st, Op("updateValue", NULL, p[1], p[2], r.v, {}))

(* m.getNextSample() *)
Pull(m) ==
    LET r == GetNextSample(St, m, MaxDepth)
    IN  /\ r.ok
        /\ Bounded(r.st)
        /\ Becomes(r.st, Op("pull", m, NULL, NULL, r.v, {}))

----------------------------------------------------------------------------
(* Spec: the connection protocol and the propagation of the configuration. *)

ConnModules == {"tg1", "fm1", "sp", "out"}

Init == StartsAt(Constructed)

Next ==
    \/ \E l, r \in ConnModules : Connect(l, r)
    \/ \E m \in ConnModules : Disconnect(m)
    \/ \E m \in ConnModules, r \in Rates : SetData(m, r)

Spec == Init /\ [][Next]_vars

----------------------------------------------------------------------------
(* Claims about the connection protocol, checked under Spec.               *)

(* The step is a connect: the history names the operation of every step. *)
Connected == lastOp'.op = "connect"

(* The classes that keep the limits of ModuleBase: one input, one output. *)
DefaultArity(m) == Kind[m] \in {"TrivialGenerator", "FunctionModule"}

(* C1: after any sequence of connects, disconnects and setData calls every *)
(* module holds at most maxInputs() inputs and at most maxOutputs()        *)
(* outputs, which is one input and one output for a module that does not   *)
(* override the limits.                                                    *)
C1_ArityLimits ==
    \A m \in Modules :
        /\ Len(inputs[m]) <= MaxInputs(m)
        /\ Len(outputs[m]) <= MaxOutputs(m)
        /\ DefaultArity(m) => Len(inputs[m]) <= 1 /\ Len(outputs[m]) <= 1

(* A connect has just evicted a connection and left both lists of its      *)
(* endpoints full.                                                         *)
C1_Witness ==
    /\ lastOp.op = "connect"
    /\ lastOp.gone # {}
    /\ DefaultArity(lastOp.src) /\ DefaultArity(lastOp.dst)
    /\ Len(outputs[lastOp.src]) = 1
    /\ Len(inputs[lastOp.dst]) = 1

(* What connect(l, r) does to one list: the new connection is appended,   *)
(* and when the list was full the earliest-added connection leaves and the *)
(* others keep their order.                                                *)
AppendedTo(old, new, limit, x) ==
    new = IF Len(old) = limit THEN Append(Tail(old), x) ELSE Append(old, x)

EvictsOldest(l, r) ==
    (MaxOutputs(l) > 0 /\ MaxInputs(r) > 0)
        => /\ AppendedTo(outputs[l], outputs'[l], MaxOutputs(l), r)
           /\ AppendedTo(inputs[r], inputs'[r], MaxInputs(r), l)

Neighbours(st, x, skip) ==
    {y \in Modules :
        /\ <<x, y>> \in Edges(st) \/ <<y, x>> \in Edges(st)
        /\ {x, y} # skip}

RECURSIVE Reach(_, _, _)

(* The modules connected to a module of set, directly or transitively. *)
Reach(st, set, skip) ==
    LET more == set \cup UNION {Neighbours(st, x, skip) : x \in set}
    IN  IF more = set THEN set ELSE Reach(st, more, skip)

Adopts(l, r) ==
    LET ini == IF data[l].initialized THEN l ELSE r
        un  == IF data[l].initialized THEN r ELSE l
    IN  (/\ InitializedAmong(St, l, r) = 1
         /\ <<l, r>> \in Edges(St'))
        => /\ data'[ini] = data[ini]
           /\ data[ini].initialized
           /\ \A x \in Reach(St', {un}, {l, r}) : data'[x] = data[ini]

(* C8: when a connection is formed between an initialized and an           *)
(* uninitialized module, in either direction, the uninitialized one and    *)
(* every module connected to it, directly or transitively, adopt the       *)
(* configuration of the initialized one, which keeps it.                   *)
C8_ConnectPropagates ==
    [][Connected => Adopts(lastOp'.src, lastOp'.dst)]_vars

(* A connect between one initialized and one uninitialized module has left *)
(* both, and a third module behind them, with the same configuration.      *)
C8_Witness ==
    /\ lastOp.op = "connect"
    /\ lastOp.v = 1
    /\ <<lastOp.src, lastOp.dst>> \in Edges(St)
    /\ data[lastOp.src].initialized
    /\ data[lastOp.src].sampleRate \in Rates
    /\ \E x \in Modules \ {lastOp.src, lastOp.dst} :
          /\ x \in Reach(St, {lastOp.src}, {})
          /\ data[x] = data[lastOp.src]
    /\ data[lastOp.dst] = data[lastOp.src]

(* A configuration a caller has set: initialized, with one of the rates. *)
SetUp(m) == data[m].initialized /\ data[m].sampleRate \in Rates

KeepsBoth(l, r) ==
    (SetUp(l) /\ SetUp(r)) => data'[l] = data[l] /\ data'[r] = data[r]

(* C9: connecting two modules that callers have both initialized leaves    *)
(* the configuration of both as it was, whether the sample rates differ or *)
(* are equal, also when the destination is a GenericOutput.                *)
C9_MismatchKeepsBoth ==
    [][Connected => KeepsBoth(lastOp'.src, lastOp'.dst)]_vars

(* C11: no module is marked initialized while it holds the sentinel sample *)
(* rate of an un-configured module: no connect and no setData hands on the *)
(* configuration of a module that is itself uninitialized.                 *)
C11_SentinelNeverInitialized ==
    \A m \in Modules : data[m].initialized => data[m].sampleRate # SentinelRate

(* The classes that generate samples and the classes that are sinks. *)
Generators == {m \in Modules : Kind[m] = "TrivialGenerator"}

Sinks == {m \in Modules : Kind[m] = "GenericOutput"}

(* C15: a generator accepts no input and a sink no output: after any        *)
(* sequence of connects the inputs of a generator and the outputs of a     *)
(* sink are empty.                                                         *)
C15_GeneratorsAndSinksClosed ==
    /\ \A m \in Generators : inputs[m] = <<>>
    /\ \A m \in Sinks : outputs[m] = <<>>

----------------------------------------------------------------------------
(* SpecSetup: a graph is wired to a sink that has been set up, as in       *)
(* runExperiment of the example, where the output is given its stream      *)
(* before the modules are connected.                                       *)

(* The modules whose getNextSample() a pull on m invokes. *)
Invoked(st, m) ==
    LET r == GetNextSample(st, m, MaxDepth)
    IN  {x \in Modules : r.st.calls[x] > st.calls[x]}

SetupParams == {<<"tg1", "value">>}

InitSetup ==
    \E r \in Rates : StartsAt(SetDataOp(Constructed, "out", DataOfRate(r)))

NextSetup ==
    \/ \E l, r \in ConnModules : Connect(l, r)
    \/ \E l \in ConnModules, p \in SetupParams : ConnectParam(l, p)
    \/ \E m \in ConnModules : Disconnect(m)

SpecSetup == InitSetup /\ [][NextSetup]_vars

(* C10: once the sink has been given its sample rate and a graph has been  *)
(* wired to it, every module that a pull on the sink invokes, through      *)
(* input connections or through parameter patches, is initialized and has  *)
(* the sample rate of the sink.                                            *)
C10_ReachableConfigured ==
    \A o \in Modules :
        (Kind[o] = "GenericOutput" /\ SetUp(o))
            => \A x \in Invoked(St, o) :
                   /\ data[x].initialized
                   /\ data[x].sampleRate = data[o].sampleRate

----------------------------------------------------------------------------
(* SpecParam: the parameters of a TrivialGenerator are patched, assigned   *)
(* and pulled.                                                             *)

PatchSources == {"tg1", "fm1"}

PatchTargets == {<<"tg2", "value">>, <<"tg2", "step">>}

AssignTargets == {<<"tg1", "step">>, <<"tg2", "step">>}

Steps == {1, 2}

PullModules == {"tg1", "tg2"}

MaxParamCalls == 3

RECURSIVE SumOver(_, _)
SumOver(f, S) ==
    IF S = {} THEN 0
    ELSE LET x == CHOOSE y \in S : TRUE IN f[x] + SumOver(f, S \ {x})

(* The calls of getNextSample() made so far. *)
TotalCalls == SumOver(calls, Modules)

NextParam ==
    \/ \E l \in PatchSources, p \in PatchTargets : ConnectParam(l, p)
    \/ \E p \in AssignTargets, d \in Steps : Assign(p, d)
    \/ \E p \in PatchTargets : TotalCalls < MaxParamCalls /\ UpdateValue(p)
    \/ \E m \in PullModules : TotalCalls < MaxParamCalls /\ Pull(m)

SpecParam == Init /\ [][NextParam]_vars

(* The parameter an operation of the history names. *)
OpParam(op) == <<op.dst, op.par>>

(* What one updateValue() of a parameter patched to the TrivialGenerator g *)
(* does, the value of g not being patched itself: it calls g once, stores  *)
(* the sample g stood at, and g advances by its step.                      *)
StoresOneSample(p, g) ==
    /\ calls'[g] = calls[g] + 1
    /\ pValue'[p] = pValue[<<g, "value">>]
    /\ lastOp'.v = pValue[<<g, "value">>]
    /\ pValue'[<<g, "value">>] =
           IF p = <<g, "value">> THEN pValue'[p]
           ELSE pValue[<<g, "value">>] + pValue[<<g, "step">>]

PatchedToGenerator(p) ==
    /\ pInput[p] # NULL
    /\ Kind[pInput[p]] = "TrivialGenerator"
    /\ pInput[<<pInput[p], "value">>] = NULL

(* C5: each updateValue() of a parameter patched to a TrivialGenerator     *)
(* calls the generator exactly once and stores the sample it returns, the  *)
(* generator advancing by one step: from value 0 and step 1 the successive *)
(* pulls read 0, 1, 2, 3, ...                                              *)
C5_PatchedPullOncePerPull ==
    [][(lastOp'.op = "updateValue" /\ PatchedToGenerator(OpParam(lastOp')))
          => StoresOneSample(OpParam(lastOp'), pInput[OpParam(lastOp')])]_vars

(* The third pull of a parameter patched to a generator of step 1 that     *)
(* started at 0 has read 2.                                                *)
C5_Witness ==
    /\ lastOp.op = "updateValue"
    /\ pInput[OpParam(lastOp)] = "tg1"
    /\ pValue[<<"tg1", "step">>] = 1
    /\ calls["tg1"] = 3
    /\ pValue[<<"tg1", "value">>] = 3
    /\ lastOp.v = 2
    /\ pValue[OpParam(lastOp)] = 2

(* C6: p = x stores x and clears the patch; while the parameter is not     *)
(* patched an updateValue() leaves its value alone and calls no module,    *)
(* and a pull of the module that owns it calls no other module for it; the *)
(* patch stays cleared until a module is connected to the parameter.       *)
C6_AssignClearsPatch ==
    [][/\ lastOp'.op = "assign"
            => /\ pValue'[OpParam(lastOp')] = lastOp'.v
               /\ pInput'[OpParam(lastOp')] = NULL
               /\ calls' = calls
       /\ (lastOp'.op = "updateValue" /\ pInput[OpParam(lastOp')] = NULL)
            => /\ pValue' = pValue
               /\ calls' = calls
       /\ \A p \in Params :
            (pInput[p] = NULL /\ pInput'[p] # NULL)
                => lastOp'.op = "connectParam" /\ OpParam(lastOp') = p
       /\ \A m \in Modules :
            (/\ lastOp'.op = "pull" /\ lastOp'.src = m
             /\ Kind[m] = "TrivialGenerator"
             /\ pInput[<<m, "value">>] = NULL)
                => /\ \A x \in Modules \ {m} : calls'[x] = calls[x]
                   /\ pValue'[<<m, "step">>] = pValue[<<m, "step">>]]_vars

(* A parameter that was patched and pulled has been assigned a literal and *)
(* pulled again: it holds the literal, and its former input was not called *)
(* again.                                                                  *)
C6_Witness ==
    /\ lastOp.op = "updateValue"
    /\ OpParam(lastOp) = <<"tg2", "step">>
    /\ pInput[<<"tg2", "step">>] = NULL
    /\ pValue[<<"tg2", "step">>] = 2
    /\ lastOp.v = 2
    /\ pValue[<<"tg1", "step">>] = 1
    /\ calls["tg1"] = 1
    /\ pValue[<<"tg1", "value">>] = 1
    /\ pInput[<<"tg2", "value">>] = NULL

(* C7: l >> p installs l as the patch of p, replacing the patch p had, and *)
(* does nothing else: no module is called, no stored value changes, and    *)
(* no connection list or configuration changes.                            *)
C7_ConnectParamOnlyPatches ==
    [][lastOp'.op = "connectParam"
          => /\ pInput' = [pInput EXCEPT ![OpParam(lastOp')] = lastOp'.src]
             /\ pValue' = pValue
             /\ calls' = calls
             /\ inputs' = inputs
             /\ outputs' = outputs
             /\ data' = data]_vars

(* A module has been connected to a parameter that was patched to another  *)
(* module; the parameter still holds the sample pulled from the first.     *)
C7_Witness ==
    /\ lastOp.op = "connectParam"
    /\ lastOp.v = 1
    /\ lastOp.src = "fm1"
    /\ pInput[OpParam(lastOp)] = "fm1"
    /\ calls["fm1"] = 0
    /\ calls["tg1"] = 2
    /\ pValue[OpParam(lastOp)] = 1
    /\ inputs[lastOp.dst] = <<>>

----------------------------------------------------------------------------
(* SpecSplit: a TrivialGenerator feeds a Splitter whose consumers pull in  *)
(* any order.                                                              *)

Consumers == {"fm1", "fm2", "out"}

FanOuts == {<<"fm1", "fm2">>, <<"fm1", "fm2", "out">>}

RECURSIVE ConnectEach(_, _, _)

(* l >> c for each consumer c of a sequence, in its order. *)
ConnectEach(st, l, cs) ==
    IF cs = <<>> THEN st
    ELSE ConnectEach(ConnectOp(st, l, Head(cs)), l, Tail(cs))

(* tg1.value = v0; tg1.step = s; tg1 >> sp; sp >> c for each consumer. *)
Wired(v0, s, cs) ==
    ConnectEach(
        ConnectOp(AssignOp(AssignOp(Constructed, <<"tg1", "value">>, v0),
                           <<"tg1", "step">>, s),
                  "tg1", "sp"),
        "sp", cs)

InitSplit ==
    \E v0 \in Literals, s \in Steps, cs \in FanOuts : StartsAt(Wired(v0, s, cs))

NextSplit ==
    \E c \in Consumers : Contains(outputs["sp"], c) /\ Pull(c)

SpecSplit == InitSplit /\ [][NextSplit]_vars

(* The number of connected outputs of the Splitter. *)
FanOut == Len(outputs["sp"])

(* The ticks begun so far: a tick is FanOut consecutive pulls of the       *)
(* Splitter.                                                               *)
Tick == (calls["sp"] + FanOut - 1) \div FanOut

(* The i-th sample (from 0) of the generator feeding the Splitter. *)
SampleAt(i) ==
    pValue[<<"tg1", "value">>]
        - (calls["tg1"] - i) * pValue[<<"tg1", "step">>]

(* What consumer c returns for the Splitter sample x. *)
Through(c, x) == IF Kind[c] = "FunctionModule" THEN UserF(x) ELSE x

(* C3: whatever the order in which the consumers of a Splitter pull, the   *)
(* input of the Splitter is called once per tick and not once per pull of  *)
(* a consumer: its calls number the ticks begun, and every pull of a       *)
(* consumer is one pull of the Splitter.                                   *)
C3_InputOncePerTick ==
    /\ calls["tg1"] = Tick
    /\ calls["sp"] = SumOver(calls, Consumers)
    /\ calls["tg1"] * FanOut >= calls["sp"]

(* Two consumers have pulled four times in an uneven order and the input   *)
(* was called twice.                                                       *)
C3_Witness ==
    /\ FanOut = 2
    /\ calls["fm1"] = 3
    /\ calls["fm2"] = 1
    /\ lastOp.op = "pull"
    /\ lastOp.src = "fm2"
    /\ calls["tg1"] = 2
    /\ fedOutputs["sp"] = 0

----------------------------------------------------------------------------
(* SpecInput: modules that read an input are pulled with and without an    *)
(* input connected.                                                        *)

InputTakers == {"fm1", "add", "mul", "fir"}

UserCoefficients == <<1, 2>>

(* tg1.value = 1; tg1.step = 1; add.amount = amt; mul.amount = amt;        *)
(* fir.setup(UserCoefficients)                                             *)
InputTakersSetUp(amt) ==
    FIRSetupOp(
        AssignOp(AssignOp(AssignOp(AssignOp(Constructed,
            <<"tg1", "value">>, 1), <<"tg1", "step">>, 1),
            <<"add", "amount">>, amt), <<"mul", "amount">>, amt),
        "fir", UserCoefficients)

InitInput == \E amt \in Steps : StartsAt(InputTakersSetUp(amt))

(* m.getNextSample() where the call has no defined outcome: the process    *)
(* faults, or the call goes on with an arbitrary sample.                   *)
PullUndefined(m) ==
    /\ Undefined(St, m)
    /\ inputSamples[m] # <<>>
    /\ \/ Becomes([St EXCEPT !.calls[m] = @ + 1],
                  Op("fault", m, NULL, NULL, 0, {}))
       \/ \E x \in Literals :
            LET h == Append(Tail(inputSamples[m]), x)
            IN  Becomes([St EXCEPT !.calls[m] = @ + 1,
                                   !.inputSamples[m] = h],
                        Op("pull", m, NULL, NULL, Dot(h, coefficients[m]), {}))

(* The process has not faulted. *)
Running == lastOp.op # "fault"

NextInput ==
    \/ \E m \in InputTakers : Running /\ Connect("tg1", m)
    \/ Running /\ Disconnect("tg1")
    \/ \E m \in InputTakers : Running /\ TotalCalls < MaxCalls /\ Pull(m)
    \/ \E m \in InputTakers :
          Running /\ TotalCalls < MaxCalls /\ PullUndefined(m)

SpecInput == InitInput /\ [][NextInput]_vars

(* What a pull of m must have returned had its input been the constant 0. *)
ReadZero(m, v) ==
    CASE Kind[m] = "Adder"          -> v = pValue[<<m, "amount">>]
      [] Kind[m] = "Multiplier"     -> v = 0
      [] Kind[m] = "FunctionModule" -> v = UserF(0)
      [] Kind[m] = "FIRFilter"      ->
             /\ inputSamples[m][Len(inputSamples[m])] = 0
             /\ v = Dot(inputSamples[m], coefficients[m])
      [] OTHER                      -> TRUE

(* C12: a pull of a module that reads an input, made while no input is     *)
(* connected, never faults and returns what the module returns for the     *)
(* input 0.                                                                *)
C12_UnconnectedReadsZero ==
    /\ lastOp.op # "fault"
    /\ (lastOp.op = "pull" /\ inputs[lastOp.src] = <<>>)
           => ReadZero(lastOp.src, lastOp.v)

----------------------------------------------------------------------------
(* SpecMix: generators are connected to a Mixer and to a RingModulator,    *)
(* which are pulled.                                                       *)

MixSources == {"tg1", "tg2", "fm1"}

MixTargets == {"mix", "rm"}

(* tg1.value = c; tg2.value = c; tg1.step = s; tg2.step = s *)
GeneratorsSet(c, s) ==
    AssignOp(AssignOp(AssignOp(AssignOp(Constructed,
        <<"tg1", "value">>, c), <<"tg2", "value">>, c),
        <<"tg1", "step">>, s), <<"tg2", "step">>, s)

InitMix == \E c \in Steps, s \in {0, 1} : StartsAt(GeneratorsSet(c, s))

MaxMixPulls == 2

NextMix ==
    \/ \E l \in MixSources, r \in MixTargets : Connect(l, r)
    \/ \E m \in MixTargets :
          SumOver(calls, MixTargets) < MaxMixPulls /\ Pull(m)

SpecMix == InitMix /\ [][NextMix]_vars

(* The sample a source of SpecMix returns on its next pull: the value of a *)
(* generator, f(0) for a FunctionModule without input.                     *)
Emits(x) ==
    IF Kind[x] = "TrivialGenerator" THEN pValue[<<x, "value">>] ELSE UserF(0)

RECURSIVE SumEmitted(_)
SumEmitted(ins) ==
    IF ins = <<>> THEN 0 ELSE Emits(Head(ins)) + SumEmitted(Tail(ins))

(* The modules each of which a step called exactly once, no other module   *)
(* but the one pulled being called.                                        *)
CalledOnce(m, S) ==
    \A x \in Modules \ {m} :
        calls'[x] = calls[x] + (IF x \in S THEN 1 ELSE 0)

(* C13: a connect to a Mixer appends the source to the inputs of the Mixer *)
(* and removes none of them; a pull of the Mixer calls each connected      *)
(* input exactly once and returns the sum of their samples, unscaled: N   *)
(* times c for N generators holding at c.                                  *)
C13_MixerSumsAllInputs ==
    [][/\ (lastOp'.op = "connect" /\ Kind[lastOp'.dst] = "Mixer")
            => inputs'[lastOp'.dst] = Append(inputs[lastOp'.dst], lastOp'.src)
       /\ (lastOp'.op = "pull" /\ Kind[lastOp'.src] = "Mixer")
            => /\ lastOp'.v = SumEmitted(inputs[lastOp'.src])
               /\ CalledOnce(lastOp'.src, SeqSet(inputs[lastOp'.src]))
               /\ inputs' = inputs]_vars

(* Three sources are connected to the Mixer, the two generators hold at 2  *)
(* and the second pull has returned 2 + 2 + f(0).                          *)
C13_Witness ==
    /\ lastOp.op = "pull"
    /\ lastOp.src = "mix"
    /\ Len(inputs["mix"]) = 3
    /\ pValue[<<"tg1", "step">>] = 0
    /\ pValue[<<"tg1", "value">>] = 2
    /\ calls["mix"] = 2
    /\ calls["tg2"] = 2
    /\ lastOp.v = 2 * 2 + UserF(0)

(* C14: a RingModulator keeps two connected inputs; a pull returns the     *)
(* product of their samples, each input being called once; with a single   *)
(* input the pull returns the sample of that input, and without an input   *)
(* it returns 0.                                                           *)
C14_RingModulatorProduct ==
    [][/\ (/\ lastOp'.op = "connect"
           /\ Kind[lastOp'.dst] = "RingModulator"
           /\ Len(inputs[lastOp'.dst]) < 2)
            => inputs'[lastOp'.dst] = Append(inputs[lastOp'.dst], lastOp'.src)
       /\ (lastOp'.op = "pull" /\ Kind[lastOp'.src] = "RingModulator")
            => LET ins == inputs[lastOp'.src]
               IN  /\ Len(ins) <= 2
                   /\ lastOp'.v = CASE Len(ins) = 2 ->
                                          Emits(ins[1]) * Emits(ins[2])
                                    [] Len(ins) = 1 -> Emits(ins[1])
                                    [] OTHER -> 0
                   /\ CalledOnce(lastOp'.src, SeqSet(ins))
                   /\ inputs' = inputs]_vars

(* With two generators connected the RingModulator has returned the        *)
(* product 2 * 3 of their samples.                                         *)
C14_Witness ==
    /\ lastOp.op = "pull"
    /\ lastOp.src = "rm"
    /\ inputs["rm"] = <<"tg1", "tg2">>
    /\ calls["tg1"] = 2
    /\ calls["tg2"] = 1
    /\ pValue[<<"tg1", "step">>] = 1
    /\ lastOp.v = 6

----------------------------------------------------------------------------
(* SpecEnv: an Envelope is triggered, released and pulled.                 *)

MaxTriggers == 3

MaxTime == 3

Durations == {0, 1, 2}

SustainLevels == {0, FullLevel \div 2, FullLevel}

(* en.a = a; en.d = d; en.s = s; en.r = r *)
EnvelopeSet(a, d, s, r) ==
    [Constructed EXCEPT !.env["en"] =
        [@ EXCEPT !.a = a, !.d = d, !.s = s, !.r = r]]

InitEnv ==
    \E a \in Durations, d \in Durations, r \in Durations, s \in SustainLevels :
        StartsAt(EnvelopeSet(a, d, s, r))

(* m.attack() *)
Attack(m) ==
    /\ env[m].triggers < MaxTriggers
    /\ Becomes(AttackOp(St, m), Op("attack", m, NULL, NULL, 0, {}))

(* m.release() *)
Release(m) ==
    /\ env[m].triggers < MaxTriggers
    /\ Becomes(ReleaseOp(St, m), Op("release", m, NULL, NULL, 0, {}))

(* m.getNextSample() for an Envelope; the calls are not counted, and the   *)
(* stage timer, which grows with every pull of the sustain stage, is kept  *)
(* below MaxTime.                                                          *)
PullEnvelope(m) ==
    LET r == GetNextSample(St, m, MaxDepth)
    IN  /\ env[m].stage = "SUSTAIN" => env[m].timeSinceLastStage < MaxTime
        /\ Becomes([r.st EXCEPT !.calls = calls],
                   Op("pull", m, NULL, NULL, r.v, {}))

NextEnv ==
    \/ Attack("en")
    \/ Release("en")
    \/ PullEnvelope("en")

SpecEnv == InitEnv /\ [][NextEnv]_vars

(* Pulls keep being made. *)
SpecEnvFair == SpecEnv /\ WF_vars(PullEnvelope("en"))

(* The stages a pull can leave the Envelope in, by the stage it finds. *)
PullMoves ==
    [x \in Stages |->
        CASE x = "ATTACK"  -> {"ATTACK", "DECAY", "SUSTAIN"}
          [] x = "DECAY"   -> {"DECAY", "SUSTAIN"}
          [] x = "RELEASE" -> {"RELEASE", "IDLE"}
          [] OTHER         -> {x}]

(* C16: a new Envelope is idle; a pull moves the stage only forward along  *)
(* ATTACK -> DECAY -> SUSTAIN and RELEASE -> IDLE, attack() leads to       *)
(* ATTACK and release() to RELEASE from any stage, and a pull of an idle   *)
(* Envelope returns 0 and leaves it idle.                                  *)
C16_StageOrder ==
    /\ env["en"].stage = "IDLE"
    /\ [][/\ lastOp'.op = "pull"
               => /\ env'["en"].stage \in PullMoves[env["en"].stage]
                  /\ env["en"].stage = "IDLE" => lastOp'.v = 0
          /\ lastOp'.op = "attack" => env'["en"].stage = "ATTACK"
          /\ lastOp'.op = "release" => env'["en"].stage = "RELEASE"
          /\ env'["en"].stage \in Stages]_vars

(* The Envelope has gone through attack, decay, sustain and a release of   *)
(* two samples, and has been pulled while idle again.                      *)
C16_Witness ==
    /\ lastOp.op = "pull"
    /\ env["en"].stage = "IDLE"
    /\ env["en"].triggers = 2
    /\ env["en"].a > 0 /\ env["en"].d > 0 /\ env["en"].r > 1
    /\ env["en"].levelAtRelease = env["en"].s
    /\ env["en"].s > 0
    /\ lastOp.v = 0

(* What attack() and release() do to the fields of the Envelope. *)
Triggered(stage, level) ==
    env'["en"] = [env["en"] EXCEPT !.stage = stage,
                                   !.timeSinceLastStage = 0,
                                   ![level] = env["en"].lastP,
                                   !.triggers = @ + 1]

(* The last sample the Envelope returned is its current level. *)
LevelKept == lastOp'.op = "pull" /\ env'["en"].stage # "IDLE"
                 => env'["en"].lastP = lastOp'.v

Quiet == env["en"].triggers = MaxTriggers

----------------------------------------------------------------------------
(* SpecGate: a generator is patched into the gateInput of an Envelope; the *)
(* caller sets the value of the generator and pulls the Envelope.          *)

MaxGatePulls == 4

(* The values of the gate: 0, 0.5 and 1.0. *)
GateLevels == {0, FullLevel \div 2, FullLevel}

Gate == <<"en", "gateInput">>

(* tg1 >> en.gateInput, the generator holding the value 0. *)
InitGate ==
    \E a \in Durations, d \in Durations, r \in Durations, s \in SustainLevels :
        StartsAt(ConnectParamOp(EnvelopeSet(a, d, s, r), "tg1", Gate))

(* tg1.value = x *)
SetGate(x) ==
    /\ pValue[<<"tg1", "value">>] # x
    /\ Assign(<<"tg1", "value">>, x)

(* en.getNextSample() *)
PullGated(m) ==
    LET r == GetNextSample(St, m, MaxDepth)
    IN  /\ calls[m] < MaxGatePulls
        /\ r.ok
        /\ Becomes(r.st, Op("pull", m, NULL, NULL, r.v, {}))

NextGate ==
    \/ \E x \in GateLevels : SetGate(x)
    \/ PullGated("en")

SpecGate == InitGate /\ [][NextGate]_vars

(* What a pull did: attack() leaves the stage among ATTACK, DECAY and      *)
(* SUSTAIN, release() among RELEASE and IDLE.                              *)
GateAttacked ==
    /\ env'["en"].triggers = env["en"].triggers + 1
    /\ env'["en"].stage \in {"ATTACK", "DECAY", "SUSTAIN"}

GateReleased ==
    /\ env'["en"].triggers = env["en"].triggers + 1
    /\ env'["en"].stage \in {"RELEASE", "IDLE"}

(* The step is a pull that follows another pull: the gate has a sample     *)
(* before it.                                                              *)
NextGateSample == lastOp'.op = "pull" /\ calls["en"] >= 1

----------------------------------------------------------------------------
(* SpecOsc: an Oscillator whose sample rate is set; the caller assigns the *)
(* frequency, installs shaping functions and pulls.                        *)

MaxOscPulls == 3

(* The frequencies assigned: osc.frequency = ev.x * 8 - 2 is -2 at the     *)
(* left edge of the screen; audible ones; one above the sample rates.      *)
Frequencies == {-2, 200, 30000, 50000}

(* osc.setData(ModuleControlData_t(r)); osc.setGeneratorFunction(g) *)
InitOsc ==
    \E r \in Rates, g \in GeneratorFunctions :
        StartsAt(SetGeneratorFunctionOp(
                     SetDataOp(Constructed, "osc", DataOfRate(r)), "osc", g))

(* m.frequency = f *)
SetFrequency(m, f) ==
    /\ pValue[<<m, "frequency">>] # f
    /\ Assign(<<m, "frequency">>, f)

(* m.setGeneratorFunction(g) *)
SetGeneratorFunction(m, g) ==
    /\ osc[m].generatorFunction # g
    /\ Becomes(SetGeneratorFunctionOp(St, m, g),
               Op("setGeneratorFunction", NULL, m, g, 0, {}))

(* m.getNextSample() for an Oscillator *)
PullOscillator(m) ==
    LET r == GetNextSample(St, m, MaxDepth)
    IN  /\ calls[m] < MaxOscPulls
        /\ r.ok
        /\ Becomes(r.st, Op("pull", m, NULL, NULL, r.v, {}))

NextOsc ==
    \/ \E f \in Frequencies : SetFrequency("osc", f)
    \/ \E g \in GeneratorFunctions : SetGeneratorFunction("osc", g)
    \/ PullOscillator("osc")

SpecOsc == InitOsc /\ [][NextOsc]_vars

(* C23: after every pull of an Oscillator the waveform position lies in    *)
(* [0, 1) and is the position before the pull plus frequency / sampleRate, *)
(* wrapped into [0, 1), for negative frequencies and frequencies above the *)
(* sample rate too (positions in units of 1 / sampleRate).                 *)
C23_PositionWrappedIntoUnitInterval ==
    [][lastOp'.op = "pull"
          => /\ osc'["osc"].waveformPos >= 0
             /\ osc'["osc"].waveformPos < data["osc"].sampleRate
             /\ osc'["osc"].waveformPos =
                    (osc["osc"].waveformPos + pValue[<<"osc", "frequency">>])
                        % data["osc"].sampleRate]_vars

(* C24: setGeneratorFunction installs the function and leaves the waveform *)
(* position, the frequency parameter and the connections as they were.     *)
C24_SetGeneratorFunctionKeepsPhase ==
    [][lastOp'.op = "setGeneratorFunction"
          => /\ osc'["osc"].generatorFunction = lastOp'.par
             /\ osc'["osc"].waveformPos = osc["osc"].waveformPos
             /\ pValue' = pValue
             /\ pInput' = pInput
             /\ inputs' = inputs
             /\ outputs' = outputs
             /\ data' = data]_vars

(* The shaping function was changed in the middle of a period, after two   *)
(* pulls at 200 Hz.                                                        *)
C24_Witness ==
    /\ lastOp.op = "setGeneratorFunction"
    /\ calls["osc"] = 2
    /\ pValue[<<"osc", "frequency">>] = 200
    /\ osc["osc"].waveformPos = 400

----------------------------------------------------------------------------
(* SpecSynth: an AdditiveSynth with a standard harmonic series, amplitudes *)
(* set by the caller and the harmonics at some phase; the caller prunes.   *)

MaxHarmonics == 3

(* Amplitudes and tolerances, in the same unit. *)
Amplitudes == {-2, -1, 0, 1, 2}

Tolerances == {0, 1, 2, 3}

(* The waveform positions of the harmonics, in a unit that divides 1. *)
Phases == {0, 1}

(* setStandardHarmonicSeries(n) and setAmplitudes(amps): HarmonicInfo i    *)
(* has the relative frequency i and the amplitude amps[i].                 *)
HarmonicsSet(n, amps, ph) ==
    [Constructed EXCEPT !.harmonics["as"] =
        [i \in 1..n |-> [relativeFrequency |-> i,
                         amplitude         |-> amps[i],
                         waveformPosition  |-> ph[i]]]]

InitSynth ==
    \E n \in 0..MaxHarmonics :
        \E amps \in [1..n -> Amplitudes], ph \in [1..n -> Phases] :
            StartsAt(HarmonicsSet(n, amps, ph))

(* m.pruneLowAmplitudeHarmonics(tol) *)
Prune(m, tol) ==
    Becomes(PruneOp(St, m, tol), Op("prune", NULL, m, NULL, tol, {}))

NextSynth == \E tol \in Tolerances : Prune("as", tol)

SpecSynth == InitSynth /\ [][NextSynth]_vars

(* The indices of the harmonics that are not below the tolerance. *)
Loud(h, tol) == {i \in 1..Len(h) : Abs(h[i].amplitude) >= tol}

(* The j-th of them, counted from the front. *)
JthLoud(h, tol, j) ==
    CHOOSE i \in Loud(h, tol) :
        Cardinality({k \in Loud(h, tol) : k <= i}) = j

(* C25: pruneLowAmplitudeHarmonics(tol) leaves exactly the harmonics whose *)
(* absolute amplitude is not below tol, in their order and with their      *)
(* relative frequency, amplitude and phase as they were.                   *)
C25_PruneRemovesExactlyTheQuiet ==
    [][lastOp'.op = "prune"
          => LET h   == harmonics["as"]
                 tol == lastOp'.v
             IN  /\ Len(harmonics'["as"]) = Cardinality(Loud(h, tol))
                 /\ \A j \in 1..Len(harmonics'["as"]) :
                        harmonics'["as"][j] = h[JthLoud(h, tol, j)]]_vars

(* Two quiet harmonics in a row were removed and the third, with a         *)
(* negative amplitude, was kept with its relative frequency and phase.     *)
C25_Witness ==
    /\ lastOp.op = "prune"
    /\ lastOp.v = 2
    /\ harmonics["as"] =
           <<[relativeFrequency |-> 3, amplitude |-> -2,
              waveformPosition |-> 1]>>

----------------------------------------------------------------------------
(* SpecFir: a generator feeds an FIR filter whose sample rate is set; the  *)
(* caller sets the filter up, by type and tap count or with coefficients,  *)
(* sets the cutoff and pulls.                                              *)

MaxFirPulls == 3

(* The tap counts requested, as unsigned ints: 0 to 4, 2^31 and 2^32 - 1. *)
TapCounts ==
    {<<0, 0>>, <<0, 1>>, <<0, 2>>, <<0, 3>>, <<0, 4>>,
     <<HalfWord \div 2, 0>>, <<HalfWord - 1, HalfWord - 1>>}

FilterTypes == {"LOW_PASS", "HIGH_PASS"}

(* The coefficient vectors the caller supplies. *)
CoefficientVectors == {<<1, 2>>, <<1, 2, 3>>}

(* The cutoffs: a quarter and a half of the sample rate. *)
Cutoffs(r) == {r \div 4, r \div 2}

(* tg1.value = 1; tg1.step = 1; tg1 >> fir; fir.setData(r) *)
InitFir ==
    \E r \in Rates :
        StartsAt(SetDataOp(
            ConnectOp(AssignOp(AssignOp(Constructed,
                <<"tg1", "value">>, 1), <<"tg1", "step">>, 1),
                "tg1", "fir"),
            "fir", DataOfRate(r)))

(* No exception has been thrown and no call has faulted. *)
Alive == lastOp.op \notin {"throw", "fault"}

(* m.setup(t, n) *)
SetupType(m, t, n) ==
    LET r == FIRSetupTypeOp(St, m, t, n)
    IN  /\ Alive
        /\ Becomes(r.st, Op(IF r.ok THEN "setupType" ELSE "throw",
                            NULL, m, t, n, {}))

(* m.setup(c) *)
SetupCoefficients(m, c) ==
    /\ Alive
    /\ Becomes(FIRSetupOp(St, m, c), Op("setup", NULL, m, NULL, 0, {}))

(* m.setCutoff(cutoff) *)
SetCutoff(m, cutoff) ==
    LET r == FIRSetCutoffOp(St, m, cutoff)
    IN  /\ Alive
        /\ ~fir[m].cutoffSet
        /\ Becomes(r.st, Op(IF r.ok THEN "setCutoff" ELSE "fault",
                            NULL, m, NULL, cutoff, {}))

(* m.getNextSample() for an FIR filter, where the call is defined *)
PullFir(m) ==
    LET r == GetNextSample(St, m, MaxDepth)
    IN  /\ Alive
        /\ calls[m] < MaxFirPulls
        /\ r.ok
        /\ Becomes(r.st, Op("pull", m, NULL, NULL, r.v, {}))

(* m.getNextSample() that reads beyond the end of _coefficients: the       *)
(* process faults, or the call goes on and returns an arbitrary sample.    *)
PullOutOfRange(m) ==
    /\ Alive
    /\ calls[m] < MaxFirPulls
    /\ inputSamples[m] # <<>>
    /\ inputs[m] # <<>>
    /\ OutOfRange(St, m)
    /\ LET s0 == [St EXCEPT !.calls[m] = @ + 1]
           r  == GetNextSample(s0, Head(inputs[m]), MaxDepth)
           h  == Append(Tail(inputSamples[m]), r.v)
       IN  \/ Becomes(s0, Op("fault", m, NULL, NULL, 0, {}))
           \/ \E x \in Literals :
                Becomes([r.st EXCEPT !.inputSamples[m] = h],
                        Op("pull", m, NULL, NULL, x, {}))

NextFir ==
    \/ \E t \in FilterTypes, n \in TapCounts : SetupType("fir", t, n)
    \/ \E c \in CoefficientVectors : SetupCoefficients("fir", c)
    \/ \E c \in Cutoffs(data["fir"].sampleRate) : SetCutoff("fir", c)
    \/ PullFir("fir")
    \/ PullOutOfRange("fir")

SpecFir == InitFir /\ [][NextFir]_vars

(* The tap count setup(t, n) is to result in: n when n is odd, n + 1 when  *)
(* n is even, as an unsigned int.                                          *)
OddTaps(n) == IF IsEven(n) THEN Incr(n) ELSE n

(* C26: setup(t, n) never fails, and the resulting tap count is n when n   *)
(* is odd and n + 1 when n is even.                                        *)
C26_SetupRoundsUpToOdd ==
    /\ lastOp.op # "throw"
    /\ lastOp.op = "setupType"
           => /\ fir["fir"].coefCount >= 0
              /\ fir["fir"].coefCount \div HalfWord = OddTaps(lastOp.v)[1]
              /\ fir["fir"].coefCount % HalfWord = OddTaps(lastOp.v)[2]

(* The filter has been set up, with coefficients or by a type and a tap    *)
(* count followed by a cutoff, and has an input.                           *)
Configured ==
    /\ fir["fir"].coefCount >= 0
    /\ fir["fir"].filterType = "USER_DEFINED" \/ fir["fir"].cutoffSet
    /\ inputs["fir"] # <<>>

(* C27: a filter that was set up holds as many samples as it has           *)
(* coefficients; a pull never reads beyond them, drops the oldest sample   *)
(* and appends the sample of the input.                                    *)
C27_HistoryOfLastSamples ==
    [][Configured
          => /\ Len(inputSamples["fir"]) = Len(coefficients["fir"])
             /\ lastOp'.op # "fault"
             /\ lastOp'.op = "pull"
                  => /\ Len(inputSamples'["fir"]) = Len(inputSamples["fir"])
                     /\ \A i \in 1..(Len(inputSamples["fir"]) - 1) :
                            inputSamples'["fir"][i] = inputSamples["fir"][i + 1]
                     /\ inputSamples'["fir"][Len(inputSamples["fir"])]
                            = pValue[<<"tg1", "value">>]]_vars

----------------------------------------------------------------------------
(* SpecRc: a generator is patched into the breakpoint of an RCFilter;      *)
(* another generator is connected to the filter and disconnected, and the  *)
(* filter is pulled.                                                       *)

MaxRcPulls == 4

(* The samples of the signal and the breakpoints, in Hz. *)
SignalLevels == {100, 200}

Breakpoints == {1000, 2000}

Breakpoint == <<"rc", "breakpoint">>

(* tg1.value = x; tg2.value = b; tg2.step = 1000; tg2 >> rc.breakpoint;    *)
(* rc.setData(r)                                                           *)
InitRc ==
    \E r \in Rates, x \in SignalLevels, b \in Breakpoints :
        StartsAt(SetDataOp(
            ConnectParamOp(
                AssignOp(AssignOp(AssignOp(Constructed,
                    <<"tg1", "value">>, x), <<"tg2", "value">>, b),
                    <<"tg2", "step">>, 1000),
                "tg2", Breakpoint),
            "rc", DataOfRate(r)))

(* rc.getNextSample() *)
PullRc(m) ==
    LET r == GetNextSample(St, m, MaxDepth)
    IN  /\ calls[m] < MaxRcPulls
        /\ r.ok
        /\ Becomes(r.st, Op("pull", m, NULL, NULL, r.v, {}))

NextRc ==
    \/ Connect("tg1", "rc")
    \/ Disconnect("rc")
    \/ PullRc("rc")

SpecRc == InitRc /\ [][NextRc]_vars

(* C28: on every pull of an RCFilter the breakpoint is re-pulled exactly   *)
(* once, before the update equation uses it: the module patched into       *)
(* breakpoint advances by one sample per pull of the filter, and the       *)
(* sample is the value the parameter holds.                                *)
C28_BreakpointPulledOncePerPull ==
    [][lastOp'.op = "pull"
          => /\ calls'["tg2"] = calls["tg2"] + 1
             /\ pValue'[Breakpoint] = pValue[<<"tg2", "value">>]]_vars

----------------------------------------------------------------------------
(* SpecIir: a generator feeds a RecursiveFilter whose sample rate is set;  *)
(* the caller sets the type, the breakpoint, the bandwidth and the sample  *)
(* rate and pulls.                                                         *)

MaxIirPulls == 2

RecursiveFilterTypes == {"LOW_PASS", "HIGH_PASS", "BAND_PASS", "NOTCH"}

(* Breakpoints and bandwidths in Hz, below half of the sample rates. *)
IirBreakpoints == {3000, 11025}

Bandwidths == {2205, 4410}

(* tg1.value = 100; tg1.step = 100; tg1 >> flt; flt.setData(r), for a      *)
(* filter whose _breakpoint and _bandwidth hold whatever they held.        *)
InitIir ==
    \E r \in Rates, f \in IirBreakpoints, bw \in Bandwidths :
        StartsAt(FilterSetDataOp(
            ConnectOp(AssignOp(AssignOp(
                [Constructed EXCEPT !.filter["flt"].breakpoint = f,
                                    !.filter["flt"].bandwidth = bw],
                <<"tg1", "value">>, 100), <<"tg1", "step">>, 100),
                "tg1", "flt"),
            "flt", DataOfRate(r)))

(* m.setup(type) *)
FilterSetup(m, type) ==
    /\ filter[m].filterType # type
    /\ Becomes(FilterSetupOp(St, m, type), Op("setup", NULL, m, type, 0, {}))

(* m.setBreakpoint(f) *)
FilterSetBreakpoint(m, f) ==
    /\ filter[m].breakpoint # f
    /\ Becomes(FilterSetBreakpointOp(St, m, f),
               Op("setBreakpoint", NULL, m, NULL, f, {}))

(* m.setBandwidth(bw) *)
FilterSetBandwidth(m, bw) ==
    /\ filter[m].bandwidth # bw
    /\ Becomes(FilterSetBandwidthOp(St, m, bw),
               Op("setBandwidth", NULL, m, NULL, bw, {}))

(* m.setData(ModuleControlData_t(r)) *)
FilterSetData(m, r) ==
    /\ data[m].sampleRate # r
    /\ Becomes(FilterSetDataOp(St, m, DataOfRate(r)),
               Op("setData", NULL, m, NULL, r, {}))

(* m.getNextSample() for a RecursiveFilter *)
PullFilter(m) ==
    LET r == GetNextSample(St, m, MaxDepth)
    IN  /\ calls[m] < MaxIirPulls
        /\ r.ok
        /\ Becomes(r.st, Op("pull", m, NULL, NULL, r.v, {}))

NextIir ==
    \/ \E t \in RecursiveFilterTypes : FilterSetup("flt", t)
    \/ \E f \in IirBreakpoints : FilterSetBreakpoint("flt", f)
    \/ \E bw \in Bandwidths : FilterSetBandwidth("flt", bw)
    \/ \E r \in Rates : FilterSetData("flt", r)
    \/ PullFilter("flt")

SpecIir == InitIir /\ [][NextIir]_vars

(* C29: once the coefficients have been calculated they are, in every      *)
(* state and so whenever a sample is computed, the ones derived from the   *)
(* current filter type, breakpoint, bandwidth and sample rate: a change of *)
(* any of these recalculates them before the next sample.                  *)
C29_CoefficientsAreCurrent ==
    filter["flt"].computed
        => filter["flt"].coefs =
               CalcCoefs(filter["flt"].filterType, filter["flt"].breakpoint,
                         filter["flt"].bandwidth, data["flt"].sampleRate)

(* A band-pass filter whose breakpoint, bandwidth and sample rate were     *)
(* changed has computed its second sample.                                 *)
C29_Witness ==
    /\ lastOp.op = "pull"
    /\ calls["flt"] = 2
    /\ filter["flt"].filterType = "BAND_PASS"
    /\ filter["flt"].breakpoint = 11025
    /\ filter["flt"].bandwidth = 4410
    /\ data["flt"].sampleRate = 48000
    /\ filter["flt"].coefs.a2 # 0
    /\ filter["flt"].y2 # 0
    /\ filter["flt"].y1 # filter["flt"].y2

----------------------------------------------------------------------------
(* SpecSbi: the caller gives a SoundBufferInput a sound buffer and one of  *)
(* its channels, and pulls, also past the end of the data.                 *)

MaxSbiPulls == 5

(* A SoundBufferInput without a sound buffer. *)
InitSbi == StartsAt(Constructed)

(* m.setSoundBuffer(&sb, channel), for a channel the buffer has *)
SetSoundBuffer(m, sb, channel) ==
    /\ channel < SoundBuffers[sb].soundChannels
    /\ Becomes(SetSoundBufferOp(St, m, sb, channel),
               Op("setSoundBuffer", NULL, m, sb, channel, {}))

(* m.getNextSample() for a SoundBufferInput *)
PullSbi(m) ==
    LET r == GetNextSample(St, m, MaxDepth)
    IN  /\ calls[m] < MaxSbiPulls
        /\ r.ok
        /\ Becomes(r.st, Op("pull", m, NULL, NULL, r.v, {}))

NextSbi ==
    \/ \E sb \in DOMAIN SoundBuffers, channel \in 0..1 :
           SetSoundBuffer("sbi", sb, channel)
    \/ PullSbi("sbi")

SpecSbi == InitSbi /\ [][NextSbi]_vars

(* The samples of a channel of a sound buffer, one per sample frame. *)
ChannelSamples(b, channel) ==
    [n \in 1..(Len(b.soundData) \div b.soundChannels) |->
        b.soundData[SampleIndex(b, n - 1, channel) + 1]]

(* The number of sample frames the read cursor has passed. *)
FramesRead(i) ==
    (i.currentSample - i.channel) \div SoundBuffers[i.sb].soundChannels

(* C30: setSoundBuffer puts the read cursor on the first sample frame; a   *)
(* pull with the cursor on sample frame n of the data returns sample n of  *)
(* the chosen channel and moves the cursor on by one sample frame; a pull  *)
(* with the cursor past the end of the data, or without a sound buffer,    *)
(* returns 0 and reads nothing.                                            *)
C30_ReadsChosenChannelInOrder ==
    [][LET i == sbInput["sbi"]
           j == sbInput'["sbi"]
       IN  /\ lastOp'.op = "setSoundBuffer" => FramesRead(j) = 0
           /\ (lastOp'.op = "pull" /\ i.sb = NULL) => lastOp'.v = 0
           /\ (lastOp'.op = "pull" /\ i.sb # NULL) =>
                  LET samples == ChannelSamples(SoundBuffers[i.sb], i.channel)
                      n       == FramesRead(i) + 1
                  IN  /\ j.sb = i.sb /\ j.channel = i.channel
                      /\ i.currentSample
                             = SampleIndex(SoundBuffers[i.sb], n - 1, i.channel)
                      /\ IF n <= Len(samples)
                         THEN /\ lastOp'.v = samples[n]
                              /\ FramesRead(j) = n
                         ELSE /\ lastOp'.v = 0
                              /\ j = i]_vars

(* The second channel of a stereo buffer of three sample frames has been   *)
(* read to its end (21, 22, 23) and the pulls after it have returned 0.    *)
C30_Witness ==
    /\ lastOp.op = "pull"
    /\ lastOp.v = 0
    /\ calls["sbi"] = 5
    /\ sbInput["sbi"].sb = "stereo3"
    /\ sbInput["sbi"].channel = 1
    /\ sbInput["sbi"].currentSample = 7

----------------------------------------------------------------------------
(* CX_SoundBufferPlayer                                                    *)

(* a < b for two uint64_t values *)
Less64(a, b) == IF (a < 0) = (b < 0) THEN a < b ELSE b < 0

(* config.outputChannels of the sound stream of the player *)
OutputChannels == 2

(* CX_SoundBufferPlayer::setSoundBuffer(sound), for a sound that was        *)
(* loaded and has the channel count and the sample rate of the stream.     *)
PlayerSetSoundBufferOp(st, sb) ==
    [st EXCEPT !.player.playing = FALSE, !.player.buffer = sb]

(* CX_SoundBufferPlayer::play(), the sound stream running *)
PlayOp(st) ==
    IF st.player.buffer # NULL /\ IsReadyToPlay(SoundBuffers[st.player.buffer])
    THEN [st EXCEPT !.player.playing = TRUE,
                    !.player.soundPlaybackSampleFrame = 0]
    ELSE st

(* CX_SoundBufferPlayer::stop() *)
StopOp(st) == [st EXCEPT !.player.playing = FALSE]

(* CX_SoundBufferPlayer::startPlayingAt: play() when the adjusted start     *)
(* time has passed, else the start is queued for the sample frame start.   *)
StartPlayingAtOp(st, passed, start) ==
    IF passed
    THEN PlayOp(st)
    ELSE [st EXCEPT !.player.playbackStartSampleFrame = start,
                    !.player.playbackStartQueued = TRUE]

(* CX_SoundBufferPlayer::_outputEventHandler: v is sampleFramesToOutput,    *)
(* and ok is FALSE when the copy reads outside the sound data or writes    *)
(* outside the output buffer.                                              *)
OutputEventOp(st) ==
    LET p        == st.player
        size     == Len(SoundBuffers[p.buffer].soundData)
        starts   == /\ p.playbackStartQueued
                    /\ Less64(p.playbackStartSampleFrame,
                              p.currentSampleFrame + p.bufferSize)
        offset   == IF starts
                    THEN p.playbackStartSampleFrame - p.currentSampleFrame
                    ELSE 0
        position == IF starts THEN 0 ELSE p.soundPlaybackSampleFrame
        short    == Less64(size, (position + p.bufferSize - offset)
                                     * OutputChannels)
        toOutput == IF short
                    THEN (size \div OutputChannels) - position - offset
                    ELSE IF ~p.playbackStartQueued THEN p.bufferSize
                    ELSE IF starts THEN p.bufferSize - offset
                    ELSE 0
        inside   == /\ toOutput >= 0 /\ offset >= 0 /\ position >= 0
                    /\ (position + toOutput) * OutputChannels <= size
                    /\ offset + toOutput * OutputChannels
                           <= p.bufferSize * OutputChannels
    IN  IF (~p.playing /\ ~p.playbackStartQueued) \/ p.buffer = NULL
        THEN [st |-> st, v |-> 0, ok |-> TRUE]
        ELSE [st |-> [st EXCEPT !.player =
                         [p EXCEPT !.playing =
                                       IF short THEN FALSE
                                       ELSE IF starts THEN TRUE ELSE @,
                                   !.playbackStartQueued = @ /\ ~starts,
                                   !.currentSampleFrame = @ + p.bufferSize,
                                   !.soundPlaybackSampleFrame =
                                       position + toOutput]],
              v  |-> toOutput,
              ok |-> toOutput = 0 \/ inside]

(* SpecPlayer: a player set up on a running sound stream with a sound      *)
(* buffer; the caller plays, stops and queues, and the sound stream calls  *)
(* the output event handler.                                               *)

MaxCallbacks == 3

BufferSizes == {2, 4}

PlayerBuffers == {"click", "stereo", "stereo3"}

(* The sample frames from the current one at which a start is queued. *)
Delays == 0..5

(* player.setup(&ss); player.setSoundBuffer(&sb) *)
InitPlayer ==
    \E sb \in PlayerBuffers, n \in BufferSizes :
        StartsAt(PlayerSetSoundBufferOp(
            [Constructed EXCEPT !.player.bufferSize = n], sb))

(* player.play() *)
Play ==
    /\ Alive
    /\ Becomes([PlayOp(St) EXCEPT !.player.stopped = FALSE],
               Op("play", NULL, NULL, NULL, 0, {}))

(* player.stop() *)
Stop ==
    /\ Alive
    /\ Becomes([StopOp(St) EXCEPT !.player.stopped = TRUE],
               Op("stop", NULL, NULL, NULL, 0, {}))

(* player.startPlayingAt(t, l) *)
StartPlayingAt(passed, delay) ==
    /\ Alive
    /\ Becomes([StartPlayingAtOp(St, passed,
                                 player.currentSampleFrame + delay)
                    EXCEPT !.player.stopped = FALSE],
               Op("startPlayingAt", NULL, NULL, NULL, delay, {}))

(* The sound stream asks for the next buffer of output. *)
OutputEvent ==
    LET r == OutputEventOp(St)
    IN  /\ Alive
        /\ player.currentSampleFrame < MaxCallbacks * player.bufferSize
        /\ Becomes(r.st, Op(IF r.ok THEN "outputEvent" ELSE "fault",
                            NULL, NULL, NULL, r.v, {}))

NextPlayer ==
    \/ Play
    \/ Stop
    \/ \E passed \in BOOLEAN, delay \in Delays : StartPlayingAt(passed, delay)
    \/ OutputEvent

SpecPlayer == InitPlayer /\ [][NextPlayer]_vars

(* C32: after stop(), and until play() or startPlayingAt() is called       *)
(* again, an output callback neither starts nor continues playback: it     *)
(* leaves the player not playing and copies no sample frame.               *)
C32_StopCancelsPlayback ==
    [][(lastOp'.op \in {"outputEvent", "fault"} /\ player.stopped)
           => (~player'.playing /\ lastOp'.v = 0)]_vars

(* The sample frames of the sound buffer of the player. *)
PlayerFrames ==
    Len(SoundBuffers[player.buffer].soundData) \div OutputChannels

(* C39: at every output callback the playback position stays within the    *)
(* sample frames of the sound buffer, the sample frames copied are no more *)
(* than the buffer size of the callback, and a callback that finds the     *)
(* sound played to its end leaves the player not playing.                  *)
C39_PlaybackWithinBuffers ==
    [][lastOp'.op \in {"outputEvent", "fault"}
           => /\ ~Less64(PlayerFrames, player'.soundPlaybackSampleFrame)
              /\ ~Less64(player.bufferSize, lastOp'.v)
              /\ (player.playing
                    /\ player.soundPlaybackSampleFrame = PlayerFrames
                    /\ ~player.playbackStartQueued)
                     => ~player'.playing]_vars

----------------------------------------------------------------------------
(* SpecCycle: the caller connects a generator, a function module and an    *)
(* adder in any way, cycles included, and pulls them.  A pull that nests    *)
(* deeper than MaxDepth calls, more than there are modules, never returns: *)
(* it ends the program.                                                    *)

MaxCyclePulls == 2

CycleModules == {"tg1", "fm1", "add"}

Recursing == lastOp.op = "recursion"

(* l >> r *)
ConnectAny(l, r) == ~Recursing /\ Connect(l, r)

(* m.disconnect() *)
DisconnectAny(m) == ~Recursing /\ Disconnect(m)

(* m.getNextSample() returns *)
PullReturns(m) ==
    LET r == GetNextSample(St, m, MaxDepth)
    IN  /\ ~Recursing
        /\ calls[m] < MaxCyclePulls
        /\ r.ok
        /\ Becomes(r.st, Op("pull", m, NULL, NULL, r.v, {}))

(* m.getNextSample() recurses without end *)
PullRecurses(m) ==
    LET r == GetNextSample(St, m, MaxDepth)
    IN  /\ ~Recursing
        /\ calls[m] < MaxCyclePulls
        /\ ~r.ok
        /\ Becomes(St, Op("recursion", m, NULL, NULL, 0, {}))

NextCycle ==
    \/ \E l, r \in CycleModules : ConnectAny(l, r)
    \/ \E m \in CycleModules : DisconnectAny(m)
    \/ \E m \in CycleModules : PullReturns(m)
    \/ \E m \in CycleModules : PullRecurses(m)

SpecCycle == Init /\ [][NextCycle]_vars

(* x >> y holds at one of its two ends. *)
Feeds(x, y) == Contains(outputs[x], y) \/ Contains(inputs[y], x)

RECURSIVE FedBy(_)

(* The modules that a module of set feeds, directly or transitively. *)
FedBy(set) ==
    LET more == set \cup {y \in CycleModules : \E x \in set : Feeds(x, y)}
    IN  IF more = set THEN set ELSE FedBy(more)

(* The modules of the cycles through m: m feeds them and they feed m. *)
CycleOf(m) ==
    {x \in CycleModules :
        /\ \E y \in FedBy({m}) : Feeds(y, x)
        /\ \E y \in FedBy({x}) : Feeds(y, m)}

Acyclic == \A m \in CycleModules : CycleOf(m) = {}

(* The classes whose getNextSample() pulls the input. *)
PullsInput(m) == Kind[m] \in {"FunctionModule", "Adder"}

(* A connect makes its connection, and the connections it removes are      *)
(* those that the limits of the two modules evict.                         *)
ConnectsAnyway ==
    lastOp'.op = "connect"
        => /\ <<lastOp'.src, lastOp'.dst>> \in Edges(St')
           /\ \A e \in lastOp'.gone :
                  e[1] = lastOp'.src \/ e[2] = lastOp'.dst
           /\ Edges(St) \ lastOp'.gone \subseteq Edges(St')

----------------------------------------------------------------------------
(* The parameters of m that are patched to the module g. *)
PatchedTo(m, g) == {p \in Params : p[1] = m /\ pInput[p] = g}

(* C34: during one pull of a module each of its registered parameters is   *)
(* pulled exactly once: the pull calls a module that parameters of the     *)
(* pulled module are patched to once for each of these parameters.         *)
C34_EachParameterPulledOnce ==
    [][\A m \in PullModules :
          (lastOp'.op = "pull" /\ lastOp'.src = m)
              => \A g \in PatchSources \ {m} :
                     calls'[g] - calls[g] = Cardinality(PatchedTo(m, g))]_vars

----------------------------------------------------------------------------
----------------------------------------------------------------------------
(* SpecFan: a TrivialGenerator feeds a Splitter whose consumers pull in    *)
(* any order, while the Splitter is connected to further consumers and     *)
(* another generator is connected to its consumers, which evicts the       *)
(* Splitter as their input.                                                *)

FanSources == {"sp", "tg2"}

MaxFanTicks == 2

(* c.getNextSample() for a consumer c of the Splitter *)
PullFan(c) ==
    /\ Contains(outputs["sp"], c)
    /\ calls["tg1"] < MaxFanTicks
    /\ Pull(c)

NextFan ==
    \/ \E c \in Consumers : PullFan(c)
    \/ \E l \in FanSources, c \in Consumers : Connect(l, c)

SpecFan == InitSplit /\ [][NextFan]_vars

(* C36: the outputs fed in the current tick are never more than the        *)
(* connected outputs, whatever pulls, connects and evictions come between, *)
(* and a pull calls the input once when it begins a tick and not at all    *)
(* within a tick.                                                          *)
C36_FedOutputsWithinOutputs ==
    [][/\ fedOutputs'["sp"] <= Len(outputs'["sp"])
       /\ lastOp'.op = "pull"
              => calls'["tg1"] - calls["tg1"]
                     = IF fedOutputs["sp"] = 0 THEN 1 ELSE 0]_vars

----------------------------------------------------------------------------
(* SpecEnvNew: the Envelope of SpecEnv as its constructor leaves it.  The  *)
(* constructor initializes _stage only; _lastP, which release() records as *)
(* the level the release begins at, holds an indeterminate value until the *)
(* first sample of a stage is computed.                                    *)

(* What _lastP may hold in a new Envelope: any value, among them values    *)
(* outside the levels.                                                     *)
IndeterminateLevels == {-1, 0, FullLevel + 1}

(* A new Envelope whose _lastP holds p. *)
EnvelopeHolding(st, p) == [st EXCEPT !.env["en"] = [@ EXCEPT !.lastP = p]]

InitEnvNew ==
    \E a \in Durations, d \in Durations, r \in Durations, s \in SustainLevels,
       p \in IndeterminateLevels :
        StartsAt(EnvelopeHolding(EnvelopeSet(a, d, s, r), p))

SpecEnvNew == InitEnvNew /\ [][NextEnv]_vars

(* C37: with s in [0,1] and a, d, r not negative, every sample the         *)
(* Envelope returns is a level from 0 to 1, in every state and after any   *)
(* attack(), release() and pulls.                                          *)
C37_SamplesAreLevels ==
    lastOp.op = "pull" => lastOp.v >= 0 /\ lastOp.v <= FullLevel

----------------------------------------------------------------------------
(* SpecOut: a GenericOutput is configured with an oversampling, connected  *)
(* to a TrivialGenerator, disconnected and pulled.                         *)

MaxOutPulls == 3

Oversamplings == {1, 2, 3}

(* The steps of the generator; being even, the mean of any run of its      *)
(* samples is a whole number.                                              *)
EvenSteps == {0, 2}

(* ModuleControlData_t d(r); d.oversampling = n *)
DataOversampled(r, n) == [DataOfRate(r) EXCEPT !.oversampling = n]

(* tg1.value = v0; tg1.step = s; out.setData(d) with d.oversampling = n *)
InitOut ==
    \E v0 \in Literals, s \in EvenSteps, n \in Oversamplings :
        StartsAt(SetDataOp(AssignOp(AssignOp(Constructed,
                                             <<"tg1", "value">>, v0),
                                    <<"tg1", "step">>, s),
                           "out", DataOversampled(44100, n)))

(* out.setData(d) with d.oversampling = n *)
SetOversampling(n) ==
    /\ data["out"].oversampling # n
    /\ Becomes(SetDataOp(St, "out", DataOversampled(44100, n)),
               Op("setData", "out", NULL, NULL, n, {}))

(* out.getNextSample() *)
PullOut ==
    LET r == GetNextSample(St, "out", MaxDepth)
    IN  /\ calls["out"] < MaxOutPulls
        /\ Becomes(r.st, Op("pull", "out", NULL, NULL, r.v, {}))

NextOut ==
    \/ \E n \in Oversamplings : SetOversampling(n)
    \/ Connect("tg1", "out")
    \/ Disconnect("out")
    \/ PullOut

SpecOut == InitOut /\ [][NextOut]_vars

(* C38: a pull of a GenericOutput with an input connected calls the input  *)
(* as many times as the oversampling says and returns the mean of those    *)
(* samples (of a generator at value x with step s: x, x + s, ...); with no *)
(* input connected it returns 0 and calls nothing.                         *)
C38_MeanOfOversampledInput ==
    [][lastOp'.op = "pull"
          => LET n == data["out"].oversampling
                 x == pValue[<<"tg1", "value">>]
                 s == pValue[<<"tg1", "step">>]
             IN  IF Len(inputs["out"]) = 0
                 THEN /\ lastOp'.v = 0
                      /\ calls'["tg1"] = calls["tg1"]
                 ELSE /\ calls'["tg1"] - calls["tg1"] = n
                      /\ n * lastOp'.v = n * x + s * ((n * (n - 1)) \div 2)]_vars

(* A connected GenericOutput of oversampling 3 was pulled and returned the *)
(* mean of three samples that differ.                                      *)
C38_Witness ==
    /\ lastOp.op = "pull"
    /\ Len(inputs["out"]) = 1
    /\ data["out"].oversampling = 3
    /\ pValue[<<"tg1", "step">>] = 2
    /\ calls["tg1"] = 3
    /\ lastOp.v = pValue[<<"tg1", "value">>] - 4

----------------------------------------------------------------------------
(* CX_SoundBuffer::setChannelCount.  Samples are whole numbers; the sound  *)
(* data of SpecChan are chosen so that the averages the conversions take   *)
(* are whole numbers too.                                                  *)

(* getSampleFrameCount(): the samples of one channel. *)
SampleFrameCount(b) == Len(b.soundData) \div b.soundChannels

(* _soundData[(sampleFrame * _soundChannels) + channel] *)
SoundSample(b, sampleFrame, channel) ==
    b.soundData[SampleIndex(b, sampleFrame, channel) + 1]

RECURSIVE SumChannels(_, _, _, _)

(* The sum of the samples of the channels from..to - 1 of a sample frame. *)
SumChannels(b, sampleFrame, from, to) ==
    IF from >= to THEN 0
    ELSE SoundSample(b, sampleFrame, from)
             + SumChannels(b, sampleFrame, from + 1, to)

(* A sound of N channels and the sample frames of b, sample by sample. *)
Converted(b, N, sample(_, _)) ==
    SoundBuffer([i \in 1..(SampleFrameCount(b) * N) |->
                    sample((i - 1) \div N, (i - 1) % N)], N)

(* CX_SoundBuffer::clear *)
Clear(b) == SoundBuffer(<<>>, 0)

(* N > O: the new sound data the conversion fills is the one it stores. *)
MoreChannelsFilled(b, N, average) ==
    LET O == b.soundChannels
        s(f, ch) ==
            IF ch < O THEN SoundSample(b, f, ch)
            ELSE IF average THEN SumChannels(b, f, 0, O) \div O
            ELSE 0
    IN  Converted(b, N, s)

(* The case N > O of setChannelCount.  With average the old channels are   *)
(* copied and the new ones set to the average of the sample frame.         *)
(* Without it the loops fill a second vector newSoundData, declared in the *)
(* else block, and the one stored is the outer vector, whose elements are  *)
(* still the zeros it was constructed with.                                *)
MoreChannels(b, N, average) ==
    LET O == b.soundChannels
        s(f, ch) ==
            IF ~average THEN 0
            ELSE IF ch < O THEN SoundSample(b, f, ch)
            ELSE SumChannels(b, f, 0, O) \div O
    IN  Converted(b, N, s)

(* CX_SoundBuffer::setChannelCount(N, average); the cases are tried in the *)
(* order of the code.                                                      *)
SetChannelCountOp(b, N, average) ==
    LET O == b.soundChannels
        copy(f, ch) == SoundSample(b, f, 0)
        mean(f, ch) == SumChannels(b, f, 0, O) \div O
        kept(f, ch) == SoundSample(b, f, ch)
        \* (samp + sum * gamma) * sigma, gamma = 1/N, sigma = N/(N + removed)
        mixed(f, ch) == (N * SoundSample(b, f, ch) + SumChannels(b, f, N, O))
                            \div O
    IN  CASE O = N -> b
          [] O # N /\ O = 0 -> [b EXCEPT !.soundChannels = N]
          [] O # N /\ O # 0 /\ N = 0 -> Clear(b)
          [] O # N /\ O = 1 /\ N # 0 -> Converted(b, N, copy)
          [] O > 1 /\ N = 1 ->
                 IF average THEN Converted(b, N, mean)
                 ELSE Converted(b, N, copy)
          [] O > 1 /\ N > O -> MoreChannels(b, N, average)
          [] OTHER ->
                 IF average THEN Converted(b, N, mixed)
                 ELSE Converted(b, N, kept)

----------------------------------------------------------------------------
(* SpecChan: the channel count of a sound is set, again and again.         *)

MaxChannels == 4

(* Sounds of one, two and three channels; the samples of a sample frame    *)
(* have a whole average.                                                   *)
Sounds ==
    {SoundBuffer(<<10, 20, 30>>, 1),
     SoundBuffer(<<10, 20, 12, 24>>, 2),
     SoundBuffer(<<3, 6, 9, 12, 12, 24>>, 3),
     SoundBuffer(<<8, 16>>, 2)}

InitChan == \E b \in Sounds : StartsAt([Constructed EXCEPT !.sound = b])

(* sound.setChannelCount(N, average); the history keeps the old sound. *)
SetChannelCount(N, average) ==
    /\ N # sound.soundChannels
    /\ Becomes([St EXCEPT !.sound = SetChannelCountOp(sound, N, average)],
               Op("setChannelCount", NULL, NULL,
                  IF average THEN "average" ELSE "plain", N, {}))

NextChan ==
    \E N \in 0..MaxChannels, average \in BOOLEAN : SetChannelCount(N, average)

SpecChan == InitChan /\ [][NextChan]_vars

(* The step sets the channel count from O >= 2 to N > O. *)
ChannelsAdded ==
    /\ lastOp'.op = "setChannelCount"
    /\ sound.soundChannels >= 2
    /\ lastOp'.v > sound.soundChannels

(* The old channels of every sample frame are as they were. *)
OldChannelsKept ==
    \A f \in 0..(SampleFrameCount(sound) - 1) :
        \A ch \in 0..(sound.soundChannels - 1) :
            SoundSample(sound', f, ch) = SoundSample(sound, f, ch)

(* The new channels of every sample frame hold 0 or, with average, the     *)
(* average of the old channels of the sample frame.                        *)
NewChannelsSet ==
    \A f \in 0..(SampleFrameCount(sound) - 1) :
        \A ch \in sound.soundChannels..(lastOp'.v - 1) :
            SoundSample(sound', f, ch) =
                IF lastOp'.par = "average"
                THEN SumChannels(sound, f, 0, sound.soundChannels)
                         \div sound.soundChannels
                ELSE 0

(* C40: setChannelCount(N) with N > O and O >= 2 keeps the first O         *)
(* channels of every sample frame; the N - O new channels are 0 without    *)
(* average and the average of the O old channels of the frame with it.     *)
C40_OldChannelsPreserved ==
    [][ChannelsAdded
          => /\ sound'.soundChannels = lastOp'.v
             /\ SampleFrameCount(sound') = SampleFrameCount(sound)
             /\ OldChannelsKept
             /\ NewChannelsSet]_vars

====
